---- MODULE Spec2Model ----
(***************************************************************************)
(* CallWhiz Python SDK: the request/response adapter CallWhiz._request,    *)
(* the constructor, close() and the resource methods built on them         *)
(* (src/callwhiz/client.py), with the exception hierarchy of               *)
(* callwhiz/exceptions.py and the typed records of callwhiz/models.py.     *)
(*                                                                         *)
(* Python values are tagged records [t |-> type, v |-> value].  A Python   *)
(* str is a sequence of indivisible text fragments, so that concatenation  *)
(* (f-strings), prefix and containment are computed and not assumed.       *)
(***************************************************************************)
EXTENDS Integers, Sequences, FiniteSets, TLC

\* Largest number of optional parameters a caller supplies in one call.
MaxSupplied == 2

(***************************************************************************)
(* Python values                                                           *)
(***************************************************************************)
None == [t |-> "None"]

PyBool(b) == [t |-> "bool", v |-> b]

PyInt(n) == [t |-> "int", v |-> n]

PyStr(s) == [t |-> "str", v |-> s]

PyList(s) == [t |-> "list", v |-> s]

PyDict(f) == [t |-> "dict", v |-> f]

EmptyDict == PyDict([k \in {} |-> None])

\* bool(x): the truth value Python's `if x` / `not x` uses.
Truthy(x) ==
  CASE x.t = "None" -> FALSE
    [] x.t = "bool" -> x.v
    [] x.t = "int"  -> x.v # 0
    [] x.t = "str"  -> Len(x.v) > 0
    [] x.t = "list" -> Len(x.v) > 0
    [] x.t = "dict" -> DOMAIN x.v # {}
    [] OTHER        -> TRUE

\* d.get(k, default) on a dict d.
Get(d, k, default) == IF k \in DOMAIN d.v THEN d.v[k] ELSE default

\* str(n) for a status code, as one text fragment.
Fmt(n) == <<ToString(n)>>

StartsWith(s, p) == Len(p) <= Len(s) /\ SubSeq(s, 1, Len(p)) = p

Contains(s, p) ==
  \E i \in 1..(Len(s) + 1) :
     i + Len(p) - 1 <= Len(s) /\ SubSeq(s, i, i + Len(p) - 1) = p

(***************************************************************************)
(* Exceptions (callwhiz/exceptions.py and the built-ins the client lets    *)
(* through).  Base[c] is the direct base class of c.                       *)
(***************************************************************************)
\* Variant: NotFoundError derived from Exception directly.
BaseNotFoundApart ==
  [ CallWhizError       |-> "Exception",
    AuthenticationError |-> "CallWhizError",
    NotFoundError       |-> "Exception",
    RateLimitError      |-> "CallWhizError",
    ValueError          |-> "Exception",
    JSONDecodeError     |-> "ValueError",
    AttributeError      |-> "Exception",
    KeyError            |-> "Exception",
    TypeError           |-> "Exception",
    RuntimeError        |-> "Exception",
    ValidationError     |-> "ValueError",
    ConnectError        |-> "RequestError",
    ReadTimeout         |-> "RequestError",
    RequestError        |-> "Exception",
    Exception           |-> "Exception" ]

Base ==
  [ CallWhizError       |-> "Exception",
    AuthenticationError |-> "CallWhizError",
    NotFoundError       |-> "CallWhizError",
    RateLimitError      |-> "CallWhizError",
    ValueError          |-> "Exception",
    JSONDecodeError     |-> "ValueError",
    AttributeError      |-> "Exception",
    KeyError            |-> "Exception",
    TypeError           |-> "Exception",
    RuntimeError        |-> "Exception",
    ValidationError     |-> "ValueError",
    ConnectError        |-> "RequestError",
    ReadTimeout         |-> "RequestError",
    RequestError        |-> "Exception",
    Exception           |-> "Exception" ]

RECURSIVE IsInstance(_, _)
\* isinstance(e, cls) for an exception of class exc: what `except cls` catches.
IsInstance(exc, cls) ==
  IF exc = cls THEN TRUE
  ELSE IF exc = "Exception" THEN FALSE
  ELSE IsInstance(Base[exc], cls)

Raise(exc, msg) == [type |-> "raise", exc |-> exc, msg |-> msg]

Return(v) == [type |-> "return", value |-> v]

NoOutcome == [type |-> "none"]

(***************************************************************************)
(* What the transport hands back for one request: an HTTP response         *)
(* (status, raw body text, and what response.json() decodes it to), or a   *)
(* transport exception raised before any response exists.                  *)
(***************************************************************************)
NotJson == [t |-> "invalid"]

AgentPayload ==
  PyDict([ id          |-> PyStr(<<"a1">>),
           name        |-> PyStr(<<"X">>),
           model       |-> PyStr(<<"nano">>),
           voice       |-> PyStr(<<"Calvin">>),
           language    |-> PyStr(<<"en">>),
           accent      |-> None,
           status      |-> PyStr(<<"active">>),
           created_at  |-> PyStr(<<"2024-01-01T00:00:00Z">>),
           updated_at  |-> PyStr(<<"2024-01-01T00:00:00Z">>),
           webhook_ids |-> PyList(<<>>),
           has_stages  |-> PyBool(FALSE),
           stage_count |-> PyInt(0) ])

\* A second agent; owner_id is a key the Agent record does not declare.
AgentPayload2 ==
  PyDict([ id          |-> PyStr(<<"a2">>),
           name        |-> PyStr(<<"Y">>),
           description |-> PyStr(<<"second">>),
           model       |-> PyStr(<<"pro">>),
           voice       |-> PyStr(<<"Olivia">>),
           language    |-> PyStr(<<"en">>),
           status      |-> PyStr(<<"draft">>),
           created_at  |-> PyStr(<<"2024-01-01T00:00:00Z">>),
           updated_at  |-> PyStr(<<"2024-01-01T00:00:00Z">>),
           webhook_ids |-> PyList(<<PyStr(<<"w1">>)>>),
           has_stages  |-> PyBool(TRUE),
           stage_count |-> PyInt(2),
           owner_id    |-> PyStr(<<"u1">>) ])

\* An agent payload holding the required fields only.
AgentPayloadRequiredOnly ==
  PyDict([ id          |-> PyStr(<<"a1">>),
           name        |-> PyStr(<<"X">>),
           model       |-> PyStr(<<"nano">>),
           voice       |-> PyStr(<<"Calvin">>),
           language    |-> PyStr(<<"en">>),
           status      |-> PyStr(<<"active">>),
           created_at  |-> PyStr(<<"2024-01-01T00:00:00Z">>),
           updated_at  |-> PyStr(<<"2024-01-01T00:00:00Z">>) ])

CallPayload ==
  PyDict([ call_id      |-> PyStr(<<"c1">>),
           status       |-> PyStr(<<"initiated">>),
           agent_id     |-> PyStr(<<"a1">>),
           phone_number |-> PyStr(<<"+1234567890">>),
           created_at   |-> PyStr(<<"2024-01-01T00:00:00Z">>),
           started_at   |-> None,
           duration     |-> PyInt(0),
           metadata     |-> PyDict([campaign |-> PyStr(<<"test">>)]) ])

WebhookPayload ==
  PyDict([ webhook_id   |-> PyStr(<<"w1">>),
           url          |-> PyStr(<<"https://example.com/webhook">>),
           events       |-> PyList(<<PyStr(<<"call.started">>)>>),
           created_at   |-> PyStr(<<"2024-01-01T00:00:00Z">>),
           retry_policy |-> PyDict([max_retries |-> PyInt(5)]) ])

UserWebhookPayload ==
  PyDict([ id          |-> PyStr(<<"f1">>),
           name        |-> PyStr(<<"lookup">>),
           description |-> PyStr(<<"Look up an order">>),
           endpoint    |-> PyStr(<<"https://example.com/lookup">>),
           method      |-> PyStr(<<"POST">>),
           parameters  |-> PyDict([order |-> PyDict([type |-> PyStr(<<"string">>),
                                                     description |-> PyStr(<<"order id">>)])]),
           created_at  |-> PyStr(<<"2024-01-01T00:00:00Z">>) ])

PhonePayload1 ==
  PyDict([ phone_number |-> PyStr(<<"+1234567890">>), max_channels |-> PyInt(1) ])

PhonePayload2 ==
  PyDict([ phone_number |-> PyStr(<<"+1987654321">>), max_channels |-> PyInt(5) ])

TranscriptPayload ==
  PyDict([ call_id    |-> PyStr(<<"c1">>),
           transcript |-> PyList(<<
             PyDict([ timestamp |-> PyStr(<<"2024-01-01T00:00:00Z">>),
                      speaker   |-> PyStr(<<"agent">>),
                      text      |-> PyStr(<<"Hello">>) ])>>),
           duration   |-> PyInt(60),
           word_count |-> PyInt(1) ])

RecordingPayload ==
  PyDict([ call_id       |-> PyStr(<<"c1">>),
           recording_url |-> PyStr(<<"https://example.com/c1.mp3">>),
           duration      |-> PyInt(60),
           format        |-> PyStr(<<"mp3">>),
           size_bytes    |-> PyInt(1024),
           expires_at    |-> PyStr(<<"2024-01-01T00:00:00Z">>) ])

ErrorObject ==
  PyDict([ code    |-> PyStr(<<"CUSTOM_ERROR">>),
           message |-> PyStr(<<"Custom error message">>) ])

Body(text, json) == [text |-> text, json |-> json]

Bodies ==
  { Body(<<"{\"success\": true, \"data\": {\"id\": \"a1\", ...}}">>,
         PyDict([success |-> PyBool(TRUE), data |-> AgentPayload])),
    Body(<<"{\"success\": true, \"data\": [\"call.started\", \"call.ended\"]}">>,
         PyDict([success |-> PyBool(TRUE),
                 data |-> PyList(<<PyStr(<<"call.started">>), PyStr(<<"call.ended">>)>>)])),
    Body(<<"{\"success\": true, \"data\": null}">>,
         PyDict([success |-> PyBool(TRUE), data |-> None])),
    Body(<<"{\"success\": true}">>,
         PyDict([success |-> PyBool(TRUE)])),
    Body(<<"{\"data\": {\"id\": \"a1\", ...}}">>,
         PyDict([data |-> AgentPayload])),
    Body(<<"{\"success\": null, \"data\": {\"id\": \"a1\", ...}}">>,
         PyDict([success |-> None, data |-> AgentPayload])),
    Body(<<"{\"success\": false, \"error\": {\"code\": \"CUSTOM_ERROR\", \"message\": \"Custom error message\"}}">>,
         PyDict([success |-> PyBool(FALSE), error |-> ErrorObject])),
    Body(<<"{\"success\": false, \"error\": {\"code\": \"CUSTOM_ERROR\"}}">>,
         PyDict([success |-> PyBool(FALSE),
                 error |-> PyDict([code |-> PyStr(<<"CUSTOM_ERROR">>)])])),
    Body(<<"{\"success\": false, \"data\": {\"id\": \"a1\", ...}}">>,
         PyDict([success |-> PyBool(FALSE), data |-> AgentPayload])),
    Body(<<"{\"success\": false, \"error\": null}">>,
         PyDict([success |-> PyBool(FALSE), error |-> None])),
    Body(<<"{\"success\": false, \"error\": \"Unauthorized\"}">>,
         PyDict([success |-> PyBool(FALSE), error |-> PyStr(<<"Unauthorized">>)])),
    Body(<<"{\"error\": \"Server error\"}">>,
         PyDict([error |-> PyStr(<<"Server error">>)])),
    Body(<<"[]">>, PyList(<<>>)),
    Body(<<"Bad Gateway">>, NotJson),
    Body(<<>>, NotJson) }

\* Success envelopes with the payloads of the typed resources.
Success(text, data) ==
  Body(<<"{\"success\": true, \"data\": ">> \o text \o <<"}">>,
       PyDict([success |-> PyBool(TRUE), data |-> data]))

RecordBodies ==
  { Success(<<"a2">>, AgentPayload2),
    Success(<<"a1 (required fields)">>, AgentPayloadRequiredOnly),
    Success(<<"{\"message\": \"Deleted\"}">>, PyDict([message |-> PyStr(<<"Deleted">>)])) }

ListBodies ==
  { Success(<<"[]">>, PyList(<<>>)),
    Success(<<"[a1]">>, PyList(<<AgentPayload>>)),
    Success(<<"[a1, a2]">>, PyList(<<AgentPayload, AgentPayload2>>)),
    Success(<<"[a2, a1]">>, PyList(<<AgentPayload2, AgentPayload>>)),
    Success(<<"[a1, {}]">>, PyList(<<AgentPayload, EmptyDict>>)),
    Success(<<"[c1]">>, PyList(<<CallPayload>>)),
    Success(<<"[w1]">>, PyList(<<WebhookPayload>>)),
    Success(<<"[f1]">>, PyList(<<UserWebhookPayload>>)),
    Success(<<"[p1, p2]">>, PyList(<<PhonePayload1, PhonePayload2>>)),
    Success(<<"{}">>, EmptyDict) }

Statuses == {200, 201, 400, 401, 403, 404, 429, 500}

Transports ==
  [kind : {"response"}, status : Statuses, body : Bodies]
    \cup { [kind |-> "error", exc |-> "ConnectError", cause |-> <<"Connection failed">>],
           [kind |-> "error", exc |-> "ReadTimeout", cause |-> <<"The read operation timed out">>],
           [kind |-> "error", exc |-> "ReadTimeout", cause |-> <<>>] }

NoResp == [kind |-> "none"]

\* httpx Response.is_success, the test raise_for_status() makes.  The statuses
\* of the model are 2xx, 4xx and 5xx, which every httpx release treats alike.
IsSuccess(status) == 200 <= status /\ status <= 299

(***************************************************************************)
(* CallWhiz._request                                                       *)
(***************************************************************************)
\* Lines 37-43: decode the body and unwrap the envelope.
Unwrap(body) ==
  LET data == body.json IN
  IF data.t = "invalid" THEN Raise("JSONDecodeError", PyStr(<<"Expecting value">>))
  ELSE IF data.t # "dict" THEN Raise("AttributeError", PyStr(<<"no attribute 'get'">>))
  ELSE IF ~Truthy(Get(data, "success", None))
       THEN LET error_info == Get(data, "error", EmptyDict) IN
            IF error_info.t # "dict"
            THEN Raise("AttributeError", PyStr(<<"no attribute 'get'">>))
            ELSE Raise("CallWhizError",
                       Get(error_info, "message", PyStr(<<"Unknown error">>)))
  ELSE IF "data" \notin DOMAIN data.v THEN Raise("KeyError", PyStr(<<"data">>))
  ELSE Return(data.v["data"])

\* Variant: the message is always the bare status line.
ErrorMsgStatusOnly(status, body) == PyStr(<<"HTTP ">> \o Fmt(status))

\* Lines 53-57: the message of the generic error for a non-2xx response; the
\* bare `except:` turns every failure of the two lookups into the text form.
ErrorMsg(status, body) ==
  LET error_data == body.json IN
  IF error_data.t = "dict" /\ Get(error_data, "error", EmptyDict).t = "dict"
  THEN Get(Get(error_data, "error", EmptyDict), "message",
           PyStr(<<"HTTP ">> \o Fmt(status)))
  ELSE PyStr(<<"HTTP ">> \o Fmt(status) \o <<": ">> \o body.text)

\* Variant: no branch for 404, which falls through to the generic error.
HTTPStatusErrorGeneric404(status, body) ==
  IF status = 401 THEN Raise("AuthenticationError", PyStr(<<"Invalid API key">>))
  ELSE IF status = 429 THEN Raise("RateLimitError", PyStr(<<"Rate limit exceeded">>))
  ELSE Raise("CallWhizError", PyStr(<<"HTTP ">> \o Fmt(status)))

\* Lines 45-58: `except httpx.HTTPStatusError`.
HTTPStatusError(status, body) ==
  IF status = 401 THEN Raise("AuthenticationError", PyStr(<<"Invalid API key">>))
  ELSE IF status = 404 THEN Raise("NotFoundError", PyStr(<<"Resource not found">>))
  ELSE IF status = 429 THEN Raise("RateLimitError", PyStr(<<"Rate limit exceeded">>))
  ELSE Raise("CallWhizError", ErrorMsg(status, body))

\* Variant: the transport exception is let through.
RequestErrorUnwrapped(exc, cause) == Raise(exc, PyStr(cause))

\* Lines 59-60: `except httpx.RequestError`.
RequestError(exc, cause) ==
  IF IsInstance(exc, "RequestError")
  THEN Raise("CallWhizError", PyStr(<<"Request failed", ": ">> \o cause))
  ELSE Raise(exc, PyStr(cause))

\* Variant: a body that is a success envelope is unwrapped whatever the status.
RespondEnvelopeFirst(tr) ==
  IF tr.kind = "error" THEN RequestError(tr.exc, tr.cause)
  ELSE IF tr.body.json.t = "dict" /\ Truthy(Get(tr.body.json, "success", None))
  THEN Unwrap(tr.body)
  ELSE IF ~IsSuccess(tr.status) THEN HTTPStatusError(tr.status, tr.body)
  ELSE Unwrap(tr.body)

\* Lines 34-60: the outcome of _request once the transport has answered.
Respond(tr) ==
  IF tr.kind = "error" THEN RequestError(tr.exc, tr.cause)
  ELSE IF ~IsSuccess(tr.status) THEN HTTPStatusError(tr.status, tr.body)
  ELSE Unwrap(tr.body)

\* Variant: a failed request is sent a second time.
IssuedWithRetry(req, out) == IF out.type = "raise" THEN <<req, req>> ELSE <<req>>

\* The requests one _request call hands to the transport.
Issued(req, out) == <<req>>

\* Variant: the request is sent whether or not the session is closed.
_requestOnAnySession(self, session, method, endpoint, payload, tr) ==
  LET req == [method |-> method, url |-> self.base_url \o endpoint,
              headers |-> self.headers, payload |-> payload] IN
  [sent |-> Issued(req, Respond(tr)), resp |-> tr, out |-> Respond(tr)]

\* Lines 30-60.  A closed httpx session refuses the request before sending it
\* (RuntimeError; tests/integration test_manual_close_integration_v2 expects
\* the call to raise).
_request(self, session, method, endpoint, payload, tr) ==
  LET req == [method |-> method, url |-> self.base_url \o endpoint,
              headers |-> self.headers, payload |-> payload] IN
  IF session # "open"
  THEN [sent |-> <<>>, resp |-> NoResp,
        out |-> Raise("RuntimeError", PyStr(<<"Cannot send a request, as the client has been closed.">>))]
  ELSE [sent |-> Issued(req, Respond(tr)), resp |-> tr, out |-> Respond(tr)]

(***************************************************************************)
(* CallWhiz.__init__ and close                                             *)
(***************************************************************************)
\* Variant: at most one trailing ch is removed, as str.removesuffix does.
rstripOnce(s, ch) ==
  IF Len(s) > 0 /\ s[Len(s)] = ch THEN SubSeq(s, 1, Len(s) - 1) ELSE s

RECURSIVE rstrip(_, _)
\* str.rstrip(ch)
rstrip(s, ch) ==
  IF Len(s) > 0 /\ s[Len(s)] = ch THEN rstrip(SubSeq(s, 1, Len(s) - 1), ch) ELSE s

DefaultBaseUrl == <<"http://localhost:9000/v1">>

NoClient == [constructed |-> FALSE]

\* Variant: the legacy scheme, the raw key under a custom header name.
HeadersXApiKey(api_key) ==
  ("X-API-Key" :> api_key.v) @@ ("Content-Type" :> <<"application/json">>)

\* Lines 23-26: the headers the session sends with every request.
Headers(api_key) ==
  ("Authorization" :> <<"Bearer ">> \o api_key.v)
  @@ ("Content-Type" :> <<"application/json">>)

\* Variant: only None is refused, `if api_key is None`.
__init__RefusingNone(api_key, base_url) ==
  IF api_key = None
  THEN [out |-> Raise("ValueError", PyStr(<<"API key is required">>)), acquired |-> FALSE]
  ELSE [out |-> Return(None), acquired |-> TRUE,
        self |-> [constructed |-> TRUE,
                  api_key  |-> api_key,
                  base_url |-> rstrip(base_url, "/"),
                  headers  |-> Headers(api_key)]]

\* Lines 14-28.
__init__(api_key, base_url) ==
  IF ~Truthy(api_key)
  THEN [out |-> Raise("ValueError", PyStr(<<"API key is required">>)), acquired |-> FALSE]
  ELSE [out |-> Return(None), acquired |-> TRUE,
        self |-> [constructed |-> TRUE,
                  api_key  |-> api_key,
                  base_url |-> rstrip(base_url, "/"),
                  headers  |-> Headers(api_key)]]

\* Lines 532-534: httpx closes the session; closing a closed session is a no-op.
close(session) == "closed"

(***************************************************************************)
(* Typed records (callwhiz/models.py): field types and defaults.           *)
(***************************************************************************)
ModelFields ==
  [ Agent |->
      [ id |-> "str", name |-> "str", description |-> "optstr", model |-> "str",
        voice |-> "str", language |-> "str", accent |-> "optstr", status |-> "str",
        created_at |-> "datetime", updated_at |-> "datetime",
        webhook_ids |-> "liststr", has_stages |-> "bool", stage_count |-> "int" ],
    Call |->
      [ call_id |-> "str", status |-> "str", agent_id |-> "str",
        phone_number |-> "str", created_at |-> "datetime",
        estimated_cost |-> "optfloat", started_at |-> "optdatetime",
        ended_at |-> "optdatetime", duration |-> "optint", cost |-> "optfloat",
        outcome |-> "optstr", transcript_available |-> "bool",
        recording_available |-> "bool", context |-> "optdict",
        metadata |-> "optdict" ],
    WebhookRetryPolicy |->
      [ max_retries |-> "int", retry_delay |-> "int" ],
    Webhook |->
      [ webhook_id |-> "str", url |-> "str", events |-> "liststr",
        agent_ids |-> "liststr", active |-> "bool", created_at |-> "datetime",
        secret |-> "optstr", retry_policy |-> "optWebhookRetryPolicy",
        headers |-> "optdict" ],
    ParameterDefinition |->
      [ type |-> "str", description |-> "str", required |-> "bool",
        default |-> "any", title |-> "optstr", examples |-> "optlist",
        enum |-> "optlist", minLength |-> "optint", maxLength |-> "optint",
        minimum |-> "optfloat", maximum |-> "optfloat", items |-> "optdict",
        properties |-> "optdict" ],
    UserWebhook |->
      [ id |-> "str", name |-> "str", description |-> "str", endpoint |-> "str",
        method |-> "str", parameters |-> "dictParameterDefinition",
        created_at |-> "datetime", updated_at |-> "optdatetime",
        auth_type |-> "str", has_auth |-> "bool" ],
    UserCreditsSimpleResponse |->
      [ credits_remaining |-> "float", total_credits |-> "int",
        usage_percentage |-> "float" ],
    UserCreditsResponse |->
      [ user_id |-> "str", email |-> "str", credits_remaining |-> "float",
        monthly_credits |-> "int", total_credits |-> "int", plan_id |-> "str",
        billing_active |-> "bool", next_renewal_date |-> "optdatetime",
        created_at |-> "datetime" ],
    PhoneNumber |->
      [ phone_number |-> "str", max_channels |-> "int" ],
    TranscriptEntry |->
      [ timestamp |-> "datetime", speaker |-> "str", text |-> "str" ],
    TranscriptResponse |->
      [ call_id |-> "str", transcript |-> "listTranscriptEntry",
        summary |-> "optstr", duration |-> "int", word_count |-> "int" ],
    RecordingResponse |->
      [ call_id |-> "str", recording_url |-> "str", duration |-> "int",
        format |-> "str", size_bytes |-> "int", expires_at |-> "datetime" ] ]

ModelDefaults ==
  [ Agent |->
      [ description |-> None, accent |-> None, webhook_ids |-> PyList(<<>>),
        has_stages |-> PyBool(FALSE), stage_count |-> PyInt(0) ],
    Call |->
      [ estimated_cost |-> None, started_at |-> None, ended_at |-> None,
        duration |-> None, cost |-> None, outcome |-> None,
        transcript_available |-> PyBool(FALSE),
        recording_available |-> PyBool(FALSE), context |-> None,
        metadata |-> None ],
    WebhookRetryPolicy |->
      [ max_retries |-> PyInt(3), retry_delay |-> PyInt(60) ],
    Webhook |->
      [ agent_ids |-> PyList(<<>>), active |-> PyBool(TRUE), secret |-> None,
        retry_policy |-> None, headers |-> None ],
    ParameterDefinition |->
      [ required |-> PyBool(FALSE), default |-> None, title |-> None,
        examples |-> None, enum |-> None, minLength |-> None,
        maxLength |-> None, minimum |-> None, maximum |-> None,
        items |-> None, properties |-> None ],
    UserWebhook |->
      [ parameters |-> EmptyDict, updated_at |-> None,
        auth_type |-> PyStr(<<"none">>), has_auth |-> PyBool(FALSE) ],
    UserCreditsSimpleResponse |-> <<>>,
    UserCreditsResponse |-> [ next_renewal_date |-> None ],
    PhoneNumber |-> <<>>,
    TranscriptEntry |-> <<>>,
    TranscriptResponse |-> [ summary |-> None ],
    RecordingResponse |-> <<>> ]

\* Timestamps pydantic parses into a datetime.
ValidDates == { <<"2024-01-01T00:00:00Z">> }

RECURSIVE FieldOK(_, _), FieldValue(_, _), Parse(_, _)

\* Whether pydantic accepts the JSON value x for a field of type ty.
FieldOK(ty, x) ==
  CASE ty = "str"         -> x.t = "str"
    [] ty = "optstr"      -> x.t \in {"str", "None"}
    [] ty = "bool"        -> x.t = "bool"
    [] ty = "int"         -> x.t = "int"
    [] ty = "optint"      -> x.t \in {"int", "None"}
    [] ty = "float"       -> x.t = "int"
    [] ty = "optfloat"    -> x.t \in {"int", "None"}
    [] ty = "liststr"     -> x.t = "list" /\ \A i \in 1..Len(x.v) : x.v[i].t = "str"
    [] ty = "optlist"     -> x.t \in {"list", "None"}
    [] ty = "dict"        -> x.t = "dict"
    [] ty = "optdict"     -> x.t \in {"dict", "None"}
    [] ty = "any"         -> TRUE
    [] ty = "datetime"    -> x.t = "str" /\ x.v \in ValidDates
    [] ty = "optdatetime" -> x.t = "None" \/ (x.t = "str" /\ x.v \in ValidDates)
    [] ty = "optWebhookRetryPolicy" ->
         x.t = "None" \/ (x.t = "dict" /\ Parse("WebhookRetryPolicy", x).type = "return")
    [] ty = "dictParameterDefinition" ->
         /\ x.t = "dict"
         /\ \A k \in DOMAIN x.v :
               x.v[k].t = "dict" /\ Parse("ParameterDefinition", x.v[k]).type = "return"
    [] ty = "listTranscriptEntry" ->
         /\ x.t = "list"
         /\ \A i \in 1..Len(x.v) :
               x.v[i].t = "dict" /\ Parse("TranscriptEntry", x.v[i]).type = "return"

\* The value the field holds for the accepted JSON value x: a timestamp becomes
\* a datetime, an object of a nested model becomes that model's record.
FieldValue(ty, x) ==
  CASE ty \in {"datetime", "optdatetime"} /\ x.t = "str" ->
         [t |-> "datetime", v |-> x.v]
    [] ty = "optWebhookRetryPolicy" /\ x.t = "dict" ->
         Parse("WebhookRetryPolicy", x).value
    [] ty = "dictParameterDefinition" ->
         PyDict([k \in DOMAIN x.v |-> Parse("ParameterDefinition", x.v[k]).value])
    [] ty = "listTranscriptEntry" ->
         PyList([i \in 1..Len(x.v) |-> Parse("TranscriptEntry", x.v[i]).value])
    [] OTHER -> x

\* Variant: a field the payload leaves out is dropped from the record.
ParseWithoutDefaults(cls, result) ==
  LET fields == ModelFields[cls]
      defaults == ModelDefaults[cls] IN
  IF result.t # "dict"
  THEN Raise("TypeError", PyStr(<<"argument after ** must be a mapping">>))
  ELSE IF \E f \in DOMAIN fields :
             \/ f \notin DOMAIN result.v /\ f \notin DOMAIN defaults
             \/ f \in DOMAIN result.v /\ ~FieldOK(fields[f], result.v[f])
  THEN Raise("ValidationError", PyStr(<<"validation error for ", cls>>))
  ELSE Return([t |-> cls,
               v |-> [f \in DOMAIN fields \cap DOMAIN result.v |->
                        FieldValue(fields[f], result.v[f])]])

\* cls(**result): TypeError unless result is a mapping, ValidationError when a
\* required field is missing or ill-typed, else the record with defaults filled
\* in (unknown keys are ignored).
Parse(cls, result) ==
  LET fields == ModelFields[cls]
      defaults == ModelDefaults[cls] IN
  IF result.t # "dict"
  THEN Raise("TypeError", PyStr(<<"argument after ** must be a mapping">>))
  ELSE IF \E f \in DOMAIN fields :
             \/ f \notin DOMAIN result.v /\ f \notin DOMAIN defaults
             \/ f \in DOMAIN result.v /\ ~FieldOK(fields[f], result.v[f])
  THEN Raise("ValidationError", PyStr(<<"validation error for ", cls>>))
  ELSE Return([t |-> cls,
               v |-> [f \in DOMAIN fields |->
                        IF f \in DOMAIN result.v
                        THEN FieldValue(fields[f], result.v[f])
                        ELSE defaults[f]]])

(***************************************************************************)
(* Resource methods.  Each yields the requests it issued, the transport's  *)
(* answer, the outcome of its _request call and its own outcome.           *)
(***************************************************************************)
\* `result = self._request(...); return cls(**result)`
Typed(r, cls) ==
  [sent |-> r.sent, resp |-> r.resp, reqOut |-> r.out,
   out |-> IF r.out.type = "raise" THEN r.out ELSE Parse(cls, r.out.value)]

\* A method that raised before calling _request.
Local(exc) == [sent |-> <<>>, resp |-> NoResp, reqOut |-> NoOutcome, out |-> exc]

\* CallStage.model_dump()
model_dump(stage) == PyDict(stage.v)

\* [stage.model_dump() for stage in stages]
DumpStages(stages) == PyList([i \in 1..Len(stages.v) |-> model_dump(stages.v[i])])

\* Variant: `if x` in place of `if x is not None`.
IsTruthy(x) == Truthy(x)

\* `x is not None`
IsNotNone(x) == x # None

\* The `if p is not None: data[p] = p` chain of a method over its optional
\* parameters; stages are dumped.
OptionalKeys(args, params) ==
  [k \in {p \in params : IsNotNone(args[p])} |->
     IF k = "stages" THEN DumpStages(args[k]) ELSE args[k]]

\* Variant: the check tests `is None` in place of truthiness.
CreateAgentCheckNotNone(prompt, stages) ==
  IF prompt = None /\ stages = None
  THEN Raise("ValueError", PyStr(<<"Either 'prompt' or 'stages' must be provided">>))
  ELSE IF prompt # None /\ stages # None
  THEN Raise("ValueError",
             PyStr(<<"Provide either 'prompt' for single-stage or 'stages' for multi-stage, not both">>))
  ELSE NoOutcome

\* Lines 93-96.
CreateAgentCheck(prompt, stages) ==
  IF ~Truthy(prompt) /\ ~Truthy(stages)
  THEN Raise("ValueError", PyStr(<<"Either 'prompt' or 'stages' must be provided">>))
  ELSE IF Truthy(prompt) /\ Truthy(stages)
  THEN Raise("ValueError",
             PyStr(<<"Provide either 'prompt' for single-stage or 'stages' for multi-stage, not both">>))
  ELSE NoOutcome

\* Variant: prompt and stages are sent whenever they are not None.
CreateAgentBodyNotNone(args) ==
  PyDict([name |-> args.name, model |-> args.model, voice |-> args.voice]
         @@ OptionalKeys(args, {"description", "language", "accent",
                                "first_message", "webhook_ids", "prompt", "stages"}))

\* Lines 98-119.
CreateAgentBody(args) ==
  PyDict([name |-> args.name, model |-> args.model, voice |-> args.voice]
         @@ OptionalKeys(args, {"description", "language", "accent",
                                "first_message", "webhook_ids"})
         @@ (IF Truthy(args.prompt) THEN [prompt |-> args.prompt] ELSE <<>>)
         @@ (IF Truthy(args.stages) THEN [stages |-> DumpStages(args.stages)] ELSE <<>>))

\* Variant: the request is issued before the arguments are checked.
create_agentSendFirst(self, session, args, tr) ==
  LET check == CreateAgentCheck(args.prompt, args.stages)
      r == Typed(_request(self, session, "POST", <<"/agents">>,
                          [json |-> CreateAgentBody(args)], tr), "Agent") IN
  IF check.type = "raise" THEN [r EXCEPT !.out = check] ELSE r

\* Lines 63-122.
create_agent(self, session, args, tr) ==
  LET check == CreateAgentCheck(args.prompt, args.stages) IN
  IF check.type = "raise" THEN Local(check)
  ELSE Typed(_request(self, session, "POST", <<"/agents">>,
                      [json |-> CreateAgentBody(args)], tr), "Agent")

\* Variant: an identity map holding agent a1 answers for it, nothing is sent.
get_agentFromIdentityMap(self, session, agent_id, tr) ==
  IF agent_id = <<"a1">>
  THEN [sent |-> <<>>, resp |-> NoResp, reqOut |-> NoOutcome,
        out |-> Parse("Agent", AgentPayload)]
  ELSE Typed(_request(self, session, "GET", <<"/agents/">> \o agent_id, <<>>, tr), "Agent")

\* Lines 124-127.
get_agent(self, session, agent_id, tr) ==
  Typed(_request(self, session, "GET", <<"/agents/">> \o agent_id, <<>>, tr), "Agent")

UpdateAgentParams ==
  {"name", "description", "model", "voice", "language", "accent", "prompt",
   "first_message", "webhook_ids", "stages", "status"}

\* Variant: the update is sent as a POST.
update_agentViaPost(self, session, agent_id, args, tr) ==
  Typed(_request(self, session, "POST", <<"/agents/">> \o agent_id,
                 [json |-> PyDict(OptionalKeys(args, UpdateAgentParams))], tr), "Agent")

\* Lines 150-191.
update_agent(self, session, agent_id, args, tr) ==
  Typed(_request(self, session, "PUT", <<"/agents/">> \o agent_id,
                 [json |-> PyDict(OptionalKeys(args, UpdateAgentParams))], tr), "Agent")

\* Variant: a failed DELETE is reported by returning False.
DeletedOrFalse(r) ==
  [sent |-> r.sent, resp |-> r.resp, reqOut |-> r.out,
   out |-> IF r.out.type = "raise" THEN Return(PyBool(FALSE)) ELSE Return(PyBool(TRUE))]

\* `self._request("DELETE", ...); return True`
Deleted(r) ==
  [sent |-> r.sent, resp |-> r.resp, reqOut |-> r.out,
   out |-> IF r.out.type = "raise" THEN r.out ELSE Return(PyBool(TRUE))]

\* Lines 193-196.
delete_agent(self, session, agent_id, tr) ==
  Deleted(_request(self, session, "DELETE", <<"/agents/">> \o agent_id, <<>>, tr))

UpdateWebhookParams ==
  {"url", "events", "agent_ids", "active", "retry_policy", "headers"}

\* Variant: a call without any field to update is rejected locally.
update_webhookRejectingEmpty(self, session, webhook_id, args, tr) ==
  IF \A p \in UpdateWebhookParams : args[p] = None
  THEN Local(Raise("ValueError", PyStr(<<"Nothing to update">>)))
  ELSE Typed(_request(self, session, "PUT", <<"/webhooks/">> \o webhook_id,
                      [json |-> PyDict(OptionalKeys(args, UpdateWebhookParams))], tr),
             "Webhook")

\* Lines 300-326.
update_webhook(self, session, webhook_id, args, tr) ==
  Typed(_request(self, session, "PUT", <<"/webhooks/">> \o webhook_id,
                 [json |-> PyDict(OptionalKeys(args, UpdateWebhookParams))], tr), "Webhook")

UpdateUserWebhookParams ==
  {"name", "description", "endpoint", "method", "parameters", "headers",
   "auth_type", "auth_header_name", "auth_value"}

\* Lines 396-431.
update_user_webhook(self, session, webhook_id, args, tr) ==
  Typed(_request(self, session, "PUT", <<"/user-webhooks/">> \o webhook_id,
                 [json |-> PyDict(OptionalKeys(args, UpdateUserWebhookParams))], tr),
        "UserWebhook")

\* `return self._request(...)` / `result = self._request(...); return result`
Raw(r) == [sent |-> r.sent, resp |-> r.resp, reqOut |-> r.out, out |-> r.out]

\* Variant: the records come out in reverse order.
ParseAllReversed(cls, result) ==
  IF result.t = "list"
  THEN LET n == Len(result.v)
           parsed == [i \in 1..n |-> Parse(cls, result.v[i])]
           failed == {i \in 1..n : parsed[i].type = "raise"} IN
       IF failed # {}
       THEN parsed[CHOOSE i \in failed : \A j \in failed : i <= j]
       ELSE Return(PyList([i \in 1..n |-> parsed[n + 1 - i].value]))
  ELSE IF result.t = "dict" /\ DOMAIN result.v = {}
  THEN Return(PyList(<<>>))
  ELSE Raise("TypeError", PyStr(<<"argument after ** must be a mapping">>))

\* `[cls(**item) for item in result]`: the items are parsed in order and the
\* first that fails raises.  Iterating over a dict yields its keys, which are
\* not mappings; iterating over None raises TypeError as well.
ParseAll(cls, result) ==
  IF result.t = "list"
  THEN LET n == Len(result.v)
           parsed == [i \in 1..n |-> Parse(cls, result.v[i])]
           failed == {i \in 1..n : parsed[i].type = "raise"} IN
       IF failed # {}
       THEN parsed[CHOOSE i \in failed : \A j \in failed : i <= j]
       ELSE Return(PyList([i \in 1..n |-> parsed[i].value]))
  ELSE IF result.t = "dict" /\ DOMAIN result.v = {}
  THEN Return(PyList(<<>>))
  ELSE Raise("TypeError", PyStr(<<"argument after ** must be a mapping">>))

\* `result = self._request(...); return [cls(**item) for item in result]`
ListTyped(r, cls) ==
  [sent |-> r.sent, resp |-> r.resp, reqOut |-> r.out,
   out |-> IF r.out.type = "raise" THEN r.out ELSE ParseAll(cls, r.out.value)]

\* Variant: `if x is not None` in place of `if x`.
FilterKeysNotNone(args, params) ==
  [k \in {p \in params : args[p] # None} |-> args[k]]

\* The `if p: params[p] = p` chain of a method over its optional filters.
FilterKeys(args, params) ==
  [k \in {p \in params : Truthy(args[p])} |-> args[k]]

\* Lines 129-148.
list_agents(self, session, args, tr) ==
  ListTyped(_request(self, session, "GET", <<"/agents">>,
                     [params |-> PyDict([page |-> args.page, limit |-> args.limit]
                                        @@ FilterKeys(args, {"status"}))], tr),
            "Agent")

\* Lines 199-223.
start_call(self, session, args, tr) ==
  Typed(_request(self, session, "POST", <<"/calls">>,
                 [json |-> PyDict([agent_id |-> args.agent_id,
                                   phone_number |-> args.phone_number]
                                  @@ OptionalKeys(args, {"context", "webhook_url",
                                                         "metadata"}))], tr),
        "Call")

\* Lines 225-228.
get_call(self, session, call_id, tr) ==
  Typed(_request(self, session, "GET", <<"/calls/">> \o call_id, <<>>, tr), "Call")

\* Lines 253-256.
get_call_transcript(self, session, call_id, tr) ==
  Typed(_request(self, session, "GET", <<"/calls/">> \o call_id \o <<"/transcript">>, <<>>, tr),
        "TranscriptResponse")

\* Lines 258-261.
get_call_recording(self, session, call_id, tr) ==
  Typed(_request(self, session, "GET", <<"/calls/">> \o call_id \o <<"/recording">>, <<>>, tr),
        "RecordingResponse")

ListCallsFilters == {"agent_id", "status", "from_date", "to_date"}

\* Lines 230-251.
list_calls(self, session, args, tr) ==
  ListTyped(_request(self, session, "GET", <<"/calls">>,
                     [params |-> PyDict([page |-> args.page, limit |-> args.limit]
                                        @@ FilterKeys(args, ListCallsFilters))], tr),
            "Call")

\* Lines 264-288.
create_webhook(self, session, args, tr) ==
  Typed(_request(self, session, "POST", <<"/webhooks">>,
                 [json |-> PyDict([url |-> args.url, events |-> args.events,
                                   active |-> args.active]
                                  @@ OptionalKeys(args, {"agent_ids", "retry_policy",
                                                         "headers"}))], tr),
        "Webhook")

\* Lines 290-293.
list_webhooks(self, session, tr) ==
  ListTyped(_request(self, session, "GET", <<"/webhooks">>, <<>>, tr), "Webhook")

\* Lines 295-298.
get_webhook(self, session, webhook_id, tr) ==
  Typed(_request(self, session, "GET", <<"/webhooks/">> \o webhook_id, <<>>, tr),
        "Webhook")

\* Lines 328-331.
delete_webhook(self, session, webhook_id, tr) ==
  Deleted(_request(self, session, "DELETE", <<"/webhooks/">> \o webhook_id, <<>>, tr))

\* Lines 333-336.
get_available_webhook_events(self, session, tr) ==
  Raw(_request(self, session, "GET", <<"/webhooks/events">>, <<>>, tr))

CreateUserWebhookOptions ==
  {"parameters", "headers", "auth_type", "auth_header_name", "auth_value"}

\* Lines 339-384.
create_user_webhook(self, session, args, tr) ==
  Typed(_request(self, session, "POST", <<"/user-webhooks">>,
                 [json |-> PyDict([name |-> args.name,
                                   description |-> args.description,
                                   endpoint |-> args.endpoint,
                                   method |-> args.method]
                                  @@ OptionalKeys(args, CreateUserWebhookOptions))], tr),
        "UserWebhook")

\* Lines 386-389.
list_user_webhooks(self, session, tr) ==
  ListTyped(_request(self, session, "GET", <<"/user-webhooks">>, <<>>, tr),
            "UserWebhook")

\* Lines 391-394.
get_user_webhook(self, session, webhook_id, tr) ==
  Typed(_request(self, session, "GET", <<"/user-webhooks/">> \o webhook_id, <<>>, tr),
        "UserWebhook")

\* Lines 433-436.
delete_user_webhook(self, session, webhook_id, tr) ==
  Deleted(_request(self, session, "DELETE", <<"/user-webhooks/">> \o webhook_id,
                   <<>>, tr))

\* Lines 439-451.
get_credits_simple(self, session, args, tr) ==
  Typed(_request(self, session, "GET", <<"/credits/simple">>,
                 [params |-> PyDict(FilterKeys(args, {"user_id"}))], tr),
        "UserCreditsSimpleResponse")

\* Lines 453-465.
get_credits_detailed(self, session, args, tr) ==
  Typed(_request(self, session, "GET", <<"/credits/balance">>,
                 [params |-> PyDict(FilterKeys(args, {"user_id"}))], tr),
        "UserCreditsResponse")

\* Lines 467-475.
check_credits_by_owner_id(self, session, owner_id, tr) ==
  Typed(_request(self, session, "GET", <<"/credits/check/">> \o owner_id, <<>>, tr),
        "UserCreditsSimpleResponse")

\* Lines 478-481.
get_user_phone_numbers(self, session, tr) ==
  ListTyped(_request(self, session, "GET", <<"/phone-numbers">>, <<>>, tr),
            "PhoneNumber")

ListConversationsFilters == {"agent_id", "from_date", "to_date"}

\* Lines 484-502.
list_conversations(self, session, args, tr) ==
  Raw(_request(self, session, "GET", <<"/conversations">>,
               [params |-> PyDict([page |-> args.page, limit |-> args.limit]
                                  @@ FilterKeys(args, ListConversationsFilters))], tr))

\* Lines 504-506.
get_conversation(self, session, conversation_id, tr) ==
  Raw(_request(self, session, "GET", <<"/conversations/">> \o conversation_id,
               <<>>, tr))

\* Lines 509-522.
get_usage(self, session, args, tr) ==
  Raw(_request(self, session, "GET", <<"/usage">>,
               [params |-> PyDict([period |-> args.period]
                                  @@ FilterKeys(args, {"from_date", "to_date"}))], tr))

\* Lines 524-526.
get_credit_balance(self, session, tr) ==
  Raw(_request(self, session, "GET", <<"/usage/credits">>, <<>>, tr))

\* Lines 528-530.
get_account_limits(self, session, tr) ==
  Raw(_request(self, session, "GET", <<"/usage/limits">>, <<>>, tr))

\* Lines 536-537.
__enter__(self) == self

\* Variant: __exit__ returns True, which makes the with statement swallow the
\* exception of the body.
__exit__Suppressing(session, exc) == [session |-> close(session), suppress |-> TRUE]

\* Lines 539-540: close the session; the method returns None, so the with
\* statement re-raises the exception the body left with, if any.
__exit__(session, exc) == [session |-> close(session), suppress |-> FALSE]

\* Variant: the record is frozen, assignment raises and changes nothing.
__setattr__Frozen(record, field, value) ==
  [out |-> Raise("ValidationError", PyStr(<<"Instance is frozen">>)), record |-> record]

\* pydantic BaseModel.__setattr__ on a model that is not frozen and does not
\* validate assignments (models.py sets neither): a declared field takes the
\* value as given, any other name is refused.
__setattr__(record, field, value) ==
  IF field \in DOMAIN record.v
  THEN [out |-> Return(None), record |-> [record EXCEPT !.v[field] = value]]
  ELSE [out |-> Raise("ValueError", PyStr(<<"object has no field ", field>>)),
        record |-> record]

(***************************************************************************)
(* Inputs                                                                  *)
(***************************************************************************)
ApiKeys == { None, PyStr(<<>>), PyStr(<<"cw_test_123">>), PyStr(<<"cw_live_123">>) }

BaseUrls ==
  { DefaultBaseUrl, DefaultBaseUrl \o <<"/">>, DefaultBaseUrl \o <<"/", "/">> }

Ids == { <<"a1">>, <<"b2">> }

StrValues == { PyStr(<<>>), PyStr(<<"X">>) }

ListStrValues == { PyList(<<>>), PyList(<<PyStr(<<"w1">>)>>) }

BoolValues == { PyBool(FALSE), PyBool(TRUE), PyInt(0) }

DictValues == { EmptyDict, PyDict([max_retries |-> PyInt(0)]) }

Stage1 ==
  [t |-> "CallStage",
   v |-> [name |-> PyStr(<<"greeting">>), prompt |-> PyStr(<<"Say hi">>),
          webhook_ids |-> None]]

Stage2 ==
  [t |-> "CallStage",
   v |-> [name |-> PyStr(<<"closing">>), prompt |-> PyStr(<<"Say bye">>),
          webhook_ids |-> PyList(<<PyStr(<<"w1">>)>>)]]

StagesValues == { PyList(<<>>), PyList(<<Stage1>>), PyList(<<Stage1, Stage2>>) }

\* The values a caller may supply for an optional parameter, by its type.
ParamValues(p) ==
  CASE p \in {"webhook_ids", "events", "agent_ids"}       -> ListStrValues
    [] p = "stages"                                        -> StagesValues
    [] p = "active"                                        -> BoolValues
    [] p \in {"retry_policy", "headers", "parameters",
               "context", "metadata"}                      -> DictValues
    [] OTHER                                               -> StrValues

AllValues == StrValues \cup ListStrValues \cup BoolValues \cup DictValues \cup StagesValues

\* Keyword arguments over params: at most MaxSupplied are supplied, the rest
\* keep their default None.
ArgSets(params) ==
  { [p \in params |-> IF p \in DOMAIN f THEN f[p] ELSE None] :
      f \in UNION { { g \in [S -> AllValues] : \A p \in S : g[p] \in ParamValues(p) } :
                    S \in { T \in SUBSET params : Cardinality(T) <= MaxSupplied } } }

CreateAgentArgs ==
  { [name |-> PyStr(<<"X">>), model |-> PyStr(<<"nano">>), voice |-> PyStr(<<"Calvin">>)] @@ a :
      a \in ArgSets({"prompt", "stages", "description", "language", "accent",
                     "first_message", "webhook_ids"}) }

UpdateAgentArgs == ArgSets(UpdateAgentParams)

UpdateWebhookArgs == ArgSets(UpdateWebhookParams)

UpdateUserWebhookArgs == ArgSets(UpdateUserWebhookParams)

\* The answers the resource methods are exercised with.
MethodStatuses == {200, 404, 500}

MethodTransports == { tr \in Transports : tr.kind = "response" => tr.status \in MethodStatuses }

\* The answers the methods that build one typed record are exercised with.
TypedTransports ==
  MethodTransports \cup [kind : {"response"}, status : {200}, body : RecordBodies]

\* The answers the list methods are exercised with.
ListTransports ==
  { tr \in MethodTransports : tr.kind = "response" => tr.status = 200 }
    \cup [kind : {"response"}, status : {200}, body : ListBodies]
    \cup [kind : {"response"}, status : {404, 500}, body : {Body(<<"Bad Gateway">>, NotJson)}]

\* The answers the transcript and recording methods are exercised with.
SubResourceTransports ==
  MethodTransports
    \cup [kind : {"response"}, status : {200},
          body : { Success(<<"t1">>, TranscriptPayload), Success(<<"r1">>, RecordingPayload) }]

Pages == { PyInt(1), PyInt(2) }

Limits == { PyInt(20), PyInt(0), PyInt(101) }

\* The keyword arguments a caller may pass to list_agents.
ListAgentsKwargs ==
  UNION { { kw \in [S -> Pages \cup Limits \cup StrValues] :
              /\ "page" \in S => kw["page"] \in Pages
              /\ "limit" \in S => kw["limit"] \in Limits
              /\ "status" \in S => kw["status"] \in StrValues } :
          S \in SUBSET {"page", "limit", "status"} }

\* Variant: the default page size is 10.
ListAgentsDefaultsTen == [page |-> PyInt(1), limit |-> PyInt(10), status |-> None]

\* Lines 131-133: the defaults of the signature.
ListAgentsDefaults == [page |-> PyInt(1), limit |-> PyInt(20), status |-> None]

\* The parameters of a list_agents call once Python has bound them: what the
\* caller passed, and the default for what they did not.
ListAgentsArgs ==
  { [supplied |-> DOMAIN kw] @@ kw @@ ListAgentsDefaults : kw \in ListAgentsKwargs }

ListCallsArgs ==
  { [page |-> page, limit |-> PyInt(20)] @@ a :
      page \in Pages, a \in ArgSets(ListCallsFilters) }

StartCallArgs ==
  { [agent_id |-> PyStr(<<"a1">>), phone_number |-> PyStr(<<"+1234567890">>)] @@ a :
      a \in ArgSets({"context", "webhook_url", "metadata"}) }

CreateWebhookArgs ==
  { [url |-> PyStr(<<"https://example.com/webhook">>),
     events |-> PyList(<<PyStr(<<"call.started">>)>>), active |-> active] @@ a :
      active \in {PyBool(TRUE), PyBool(FALSE)},
      a \in ArgSets({"agent_ids", "retry_policy", "headers"}) }

CreateUserWebhookArgs ==
  { [name |-> PyStr(<<"lookup">>), description |-> PyStr(<<"Look up an order">>),
     endpoint |-> PyStr(<<"https://example.com/lookup">>),
     method |-> PyStr(<<"POST">>)] @@ a :
      a \in ArgSets(CreateUserWebhookOptions) }

CreditsArgs == [user_id : {None} \cup StrValues]

ListConversationsArgs ==
  { [page |-> PyInt(1), limit |-> PyInt(20)] @@ a :
      a \in ArgSets(ListConversationsFilters) }

GetUsageArgs ==
  { [period |-> PyStr(<<"month">>)] @@ a : a \in ArgSets({"from_date", "to_date"}) }

\* The attributes a caller assigns to, and the values assigned.
AssignFields == {"name", "has_stages", "owner_id"}

AssignValues == { PyStr(<<"renamed">>), None }

(***************************************************************************)
(* A call as the caller makes it: the method's name with its arguments.    *)
(***************************************************************************)
\* The calls of the resource methods, over the arguments above.
Ops ==
  UNION {
    [name : {"create_agent"}, args : CreateAgentArgs],
    [name : {"get_agent", "delete_agent"}, args : [agent_id : Ids]],
    [name : {"list_agents"}, args : ListAgentsArgs],
    { [name |-> "update_agent", args |-> [agent_id |-> id] @@ a] :
        id \in Ids, a \in UpdateAgentArgs },
    [name : {"start_call"}, args : StartCallArgs],
    [name : {"get_call", "get_call_transcript", "get_call_recording"},
     args : [call_id : Ids]],
    [name : {"list_calls"}, args : ListCallsArgs],
    [name : {"create_webhook"}, args : CreateWebhookArgs],
    [name : {"list_webhooks", "get_available_webhook_events", "list_user_webhooks",
             "get_user_phone_numbers", "get_credit_balance", "get_account_limits"},
     args : {<<>>}],
    [name : {"get_webhook", "delete_webhook", "get_user_webhook", "delete_user_webhook"},
     args : [webhook_id : Ids]],
    { [name |-> "update_webhook", args |-> [webhook_id |-> id] @@ a] :
        id \in Ids, a \in UpdateWebhookArgs },
    [name : {"create_user_webhook"}, args : CreateUserWebhookArgs],
    { [name |-> "update_user_webhook", args |-> [webhook_id |-> id] @@ a] :
        id \in Ids, a \in UpdateUserWebhookArgs },
    [name : {"get_credits_simple", "get_credits_detailed"}, args : CreditsArgs],
    [name : {"check_credits_by_owner_id"}, args : [owner_id : Ids]],
    [name : {"list_conversations"}, args : ListConversationsArgs],
    [name : {"get_conversation"}, args : [conversation_id : Ids]],
    [name : {"get_usage"}, args : GetUsageArgs] }

\* client.<name>(**args), the transport answering the request with tr.
Invoke(self, session, op, tr) ==
  LET a == op.args IN
  CASE op.name = "create_agent" -> create_agent(self, session, a, tr)
    [] op.name = "get_agent" -> get_agent(self, session, a.agent_id, tr)
    [] op.name = "list_agents" -> list_agents(self, session, a, tr)
    [] op.name = "update_agent" -> update_agent(self, session, a.agent_id, a, tr)
    [] op.name = "delete_agent" -> delete_agent(self, session, a.agent_id, tr)
    [] op.name = "start_call" -> start_call(self, session, a, tr)
    [] op.name = "get_call" -> get_call(self, session, a.call_id, tr)
    [] op.name = "get_call_transcript" -> get_call_transcript(self, session, a.call_id, tr)
    [] op.name = "get_call_recording" -> get_call_recording(self, session, a.call_id, tr)
    [] op.name = "list_calls" -> list_calls(self, session, a, tr)
    [] op.name = "create_webhook" -> create_webhook(self, session, a, tr)
    [] op.name = "list_webhooks" -> list_webhooks(self, session, tr)
    [] op.name = "get_webhook" -> get_webhook(self, session, a.webhook_id, tr)
    [] op.name = "update_webhook" -> update_webhook(self, session, a.webhook_id, a, tr)
    [] op.name = "delete_webhook" -> delete_webhook(self, session, a.webhook_id, tr)
    [] op.name = "get_available_webhook_events" ->
         get_available_webhook_events(self, session, tr)
    [] op.name = "create_user_webhook" -> create_user_webhook(self, session, a, tr)
    [] op.name = "list_user_webhooks" -> list_user_webhooks(self, session, tr)
    [] op.name = "get_user_webhook" -> get_user_webhook(self, session, a.webhook_id, tr)
    [] op.name = "update_user_webhook" ->
         update_user_webhook(self, session, a.webhook_id, a, tr)
    [] op.name = "delete_user_webhook" ->
         delete_user_webhook(self, session, a.webhook_id, tr)
    [] op.name = "get_credits_simple" -> get_credits_simple(self, session, a, tr)
    [] op.name = "get_credits_detailed" -> get_credits_detailed(self, session, a, tr)
    [] op.name = "check_credits_by_owner_id" ->
         check_credits_by_owner_id(self, session, a.owner_id, tr)
    [] op.name = "get_user_phone_numbers" -> get_user_phone_numbers(self, session, tr)
    [] op.name = "list_conversations" -> list_conversations(self, session, a, tr)
    [] op.name = "get_conversation" -> get_conversation(self, session, a.conversation_id, tr)
    [] op.name = "get_usage" -> get_usage(self, session, a, tr)
    [] op.name = "get_credit_balance" -> get_credit_balance(self, session, tr)
    [] op.name = "get_account_limits" -> get_account_limits(self, session, tr)

\* What the transport may do with a request in flight: deliver a response
\* (a success envelope, a success envelope without data, a server error),
\* fail to connect, or hit the request timeout of 30 seconds.
InFlightOutcomes ==
  { tr \in Transports :
      \/ tr.kind = "error" /\ tr.cause # <<>>
      \/ /\ tr.kind = "response"
         /\ tr.status = 200
         /\ tr.body.json \in { PyDict([success |-> PyBool(TRUE), data |-> AgentPayload]),
                               PyDict([success |-> PyBool(TRUE)]) }
      \/ /\ tr.kind = "response"
         /\ tr.status = 500
         /\ tr.body = Body(<<"Bad Gateway">>, NotJson) }

(***************************************************************************)
(* State                                                                   *)
(***************************************************************************)
VARIABLES
  client,      \* the CallWhiz object the caller holds (api_key, base_url, headers)
  session,     \* its httpx session: "absent", "open" or "closed"
  scope,       \* the with statement over the client: "none", "inside", "exited"
  pc,          \* "idle": the caller may start an operation; "done": one finished
  lastOp,      \* the operation that finished, with its arguments
  sent,        \* the HTTP requests that operation handed to the transport
  resp,        \* what the transport answered
  reqOutcome,  \* what the operation's _request call returned or raised
  outcome,     \* what the operation returned or raised to the caller
  subject,     \* the record an attribute assignment was applied to, afterwards
  prev         \* the call before the last one, where the caller remembers it

vars ==
  <<client, session, scope, pc, lastOp, sent, resp, reqOutcome, outcome,
    subject, prev>>

NoOp == [name |-> "none"]

NoRecord == [t |-> "none"]

NoPrev == [op |-> NoOp]

Init ==
  /\ client = NoClient
  /\ session = "absent"
  /\ scope = "none"
  /\ pc = "idle"
  /\ lastOp = NoOp
  /\ sent = <<>>
  /\ resp = NoResp
  /\ reqOutcome = NoOutcome
  /\ outcome = NoOutcome
  /\ subject = NoRecord
  /\ prev = NoPrev

\* Variant: a call that raises closes the session.
FinishClosingOnFailure(name, args, r) ==
  /\ pc' = "done"
  /\ lastOp' = [name |-> name, args |-> args]
  /\ sent' = r.sent
  /\ resp' = r.resp
  /\ reqOutcome' = r.reqOut
  /\ outcome' = r.out
  /\ session' = IF r.out.type = "raise" THEN "closed" ELSE session
  /\ UNCHANGED <<client, scope, subject, prev>>

\* A method of the client ran to completion with result r.
Finish(name, args, r) ==
  /\ pc' = "done"
  /\ lastOp' = [name |-> name, args |-> args]
  /\ sent' = r.sent
  /\ resp' = r.resp
  /\ reqOutcome' = r.reqOut
  /\ outcome' = r.out
  /\ UNCHANGED <<client, session, scope, subject, prev>>

\* CallWhiz(api_key, base_url).  The model follows one client object from its
\* construction on; a constructor that raised left no object behind.
Construct ==
  /\ pc = "idle"
  /\ client = NoClient
  /\ \E api_key \in ApiKeys, base_url \in BaseUrls :
       LET r == __init__(api_key, base_url) IN
       /\ pc' = "done"
       /\ lastOp' = [name |-> "__init__", args |-> [api_key |-> api_key, base_url |-> base_url]]
       /\ sent' = <<>>
       /\ resp' = NoResp
       /\ reqOutcome' = NoOutcome
       /\ outcome' = r.out
       /\ IF r.acquired
          THEN client' = r.self /\ session' = "open"
          ELSE UNCHANGED <<client, session>>
       /\ UNCHANGED <<scope, subject, prev>>

Close ==
  /\ pc = "idle"
  /\ client # NoClient
  /\ pc' = "done"
  /\ lastOp' = [name |-> "close", args |-> <<>>]
  /\ session' = close(session)
  /\ sent' = <<>>
  /\ resp' = NoResp
  /\ reqOutcome' = NoOutcome
  /\ outcome' = Return(None)
  /\ UNCHANGED <<client, scope, subject, prev>>

\* `with CallWhiz(...) as client:` is entered, the client fresh from its
\* constructor (tests/unit test_client_context_manager).
Enter ==
  /\ pc = "idle"
  /\ client # NoClient
  /\ scope = "none"
  /\ scope' = "inside"
  /\ pc' = "done"
  /\ lastOp' = [name |-> "__enter__", args |-> <<>>]
  /\ client' = __enter__(client)
  /\ sent' = <<>>
  /\ resp' = NoResp
  /\ reqOutcome' = NoOutcome
  /\ outcome' = Return([t |-> "CallWhiz", v |-> __enter__(client)])
  /\ UNCHANGED <<session, subject, prev>>

\* The with statement is left: by the body running to its end (pc = "idle"),
\* or by an exception the body did not handle (the pending raise).  The with
\* statement re-raises that exception unless __exit__ returned a true value.
Exit ==
  /\ scope = "inside"
  /\ pc = "idle" \/ (pc = "done" /\ outcome.type = "raise")
  /\ LET exc == IF pc = "done" THEN outcome ELSE NoOutcome
         r == __exit__(session, exc) IN
     /\ session' = r.session
     /\ lastOp' = [name |-> "__exit__", args |-> [exc |-> exc]]
     /\ outcome' = IF exc.type = "raise" /\ ~r.suppress THEN exc ELSE Return(None)
  /\ scope' = "exited"
  /\ pc' = "done"
  /\ sent' = <<>>
  /\ resp' = NoResp
  /\ reqOutcome' = NoOutcome
  /\ UNCHANGED <<client, subject, prev>>

Request ==
  /\ pc = "idle"
  /\ client # NoClient
  /\ \E tr \in Transports :
       LET r == _request(client, session, "GET", <<"/test">>, <<>>, tr) IN
       Finish("_request", [method |-> "GET", endpoint |-> <<"/test">>],
              [sent |-> r.sent, resp |-> r.resp, reqOut |-> r.out, out |-> r.out])

CreateAgent ==
  /\ pc = "idle"
  /\ client # NoClient
  /\ \E args \in CreateAgentArgs, tr \in TypedTransports :
       Finish("create_agent", args, create_agent(client, session, args, tr))

GetAgent ==
  /\ pc = "idle"
  /\ client # NoClient
  /\ \E id \in Ids, tr \in TypedTransports :
       Finish("get_agent", [agent_id |-> id], get_agent(client, session, id, tr))

ListAgents ==
  /\ pc = "idle"
  /\ client # NoClient
  /\ \E args \in ListAgentsArgs, tr \in ListTransports :
       Finish("list_agents", args, list_agents(client, session, args, tr))

UpdateAgent ==
  /\ pc = "idle"
  /\ client # NoClient
  /\ \E id \in Ids, args \in UpdateAgentArgs, tr \in TypedTransports :
       Finish("update_agent", [agent_id |-> id] @@ args,
              update_agent(client, session, id, args, tr))

DeleteAgent ==
  /\ pc = "idle"
  /\ client # NoClient
  /\ \E id \in Ids, tr \in TypedTransports :
       Finish("delete_agent", [agent_id |-> id], delete_agent(client, session, id, tr))

StartCall ==
  /\ pc = "idle"
  /\ client # NoClient
  /\ \E args \in StartCallArgs, tr \in MethodTransports :
       Finish("start_call", args, start_call(client, session, args, tr))

GetCall ==
  /\ pc = "idle"
  /\ client # NoClient
  /\ \E id \in Ids, tr \in MethodTransports :
       Finish("get_call", [call_id |-> id], get_call(client, session, id, tr))

GetCallTranscript ==
  /\ pc = "idle"
  /\ client # NoClient
  /\ \E id \in Ids, tr \in SubResourceTransports :
       Finish("get_call_transcript", [call_id |-> id],
              get_call_transcript(client, session, id, tr))

GetCallRecording ==
  /\ pc = "idle"
  /\ client # NoClient
  /\ \E id \in Ids, tr \in SubResourceTransports :
       Finish("get_call_recording", [call_id |-> id],
              get_call_recording(client, session, id, tr))

ListCalls ==
  /\ pc = "idle"
  /\ client # NoClient
  /\ \E args \in ListCallsArgs, tr \in ListTransports :
       Finish("list_calls", args, list_calls(client, session, args, tr))

CreateWebhook ==
  /\ pc = "idle"
  /\ client # NoClient
  /\ \E args \in CreateWebhookArgs, tr \in MethodTransports :
       Finish("create_webhook", args, create_webhook(client, session, args, tr))

ListWebhooks ==
  /\ pc = "idle"
  /\ client # NoClient
  /\ \E tr \in ListTransports :
       Finish("list_webhooks", <<>>, list_webhooks(client, session, tr))

GetWebhook ==
  /\ pc = "idle"
  /\ client # NoClient
  /\ \E id \in Ids, tr \in MethodTransports :
       Finish("get_webhook", [webhook_id |-> id], get_webhook(client, session, id, tr))

UpdateWebhook ==
  /\ pc = "idle"
  /\ client # NoClient
  /\ \E id \in Ids, args \in UpdateWebhookArgs, tr \in MethodTransports :
       Finish("update_webhook", [webhook_id |-> id] @@ args,
              update_webhook(client, session, id, args, tr))

DeleteWebhook ==
  /\ pc = "idle"
  /\ client # NoClient
  /\ \E id \in Ids, tr \in TypedTransports :
       Finish("delete_webhook", [webhook_id |-> id],
              delete_webhook(client, session, id, tr))

GetAvailableWebhookEvents ==
  /\ pc = "idle"
  /\ client # NoClient
  /\ \E tr \in MethodTransports :
       Finish("get_available_webhook_events", <<>>,
              get_available_webhook_events(client, session, tr))

CreateUserWebhook ==
  /\ pc = "idle"
  /\ client # NoClient
  /\ \E args \in CreateUserWebhookArgs, tr \in MethodTransports :
       Finish("create_user_webhook", args,
              create_user_webhook(client, session, args, tr))

ListUserWebhooks ==
  /\ pc = "idle"
  /\ client # NoClient
  /\ \E tr \in ListTransports :
       Finish("list_user_webhooks", <<>>, list_user_webhooks(client, session, tr))

GetUserWebhook ==
  /\ pc = "idle"
  /\ client # NoClient
  /\ \E id \in Ids, tr \in MethodTransports :
       Finish("get_user_webhook", [webhook_id |-> id],
              get_user_webhook(client, session, id, tr))

UpdateUserWebhook ==
  /\ pc = "idle"
  /\ client # NoClient
  /\ \E id \in Ids, args \in UpdateUserWebhookArgs, tr \in MethodTransports :
       Finish("update_user_webhook", [webhook_id |-> id] @@ args,
              update_user_webhook(client, session, id, args, tr))

DeleteUserWebhook ==
  /\ pc = "idle"
  /\ client # NoClient
  /\ \E id \in Ids, tr \in TypedTransports :
       Finish("delete_user_webhook", [webhook_id |-> id],
              delete_user_webhook(client, session, id, tr))

GetCreditsSimple ==
  /\ pc = "idle"
  /\ client # NoClient
  /\ \E args \in CreditsArgs, tr \in MethodTransports :
       Finish("get_credits_simple", args, get_credits_simple(client, session, args, tr))

GetCreditsDetailed ==
  /\ pc = "idle"
  /\ client # NoClient
  /\ \E args \in CreditsArgs, tr \in MethodTransports :
       Finish("get_credits_detailed", args,
              get_credits_detailed(client, session, args, tr))

CheckCreditsByOwnerId ==
  /\ pc = "idle"
  /\ client # NoClient
  /\ \E id \in Ids, tr \in MethodTransports :
       Finish("check_credits_by_owner_id", [owner_id |-> id],
              check_credits_by_owner_id(client, session, id, tr))

GetUserPhoneNumbers ==
  /\ pc = "idle"
  /\ client # NoClient
  /\ \E tr \in ListTransports :
       Finish("get_user_phone_numbers", <<>>,
              get_user_phone_numbers(client, session, tr))

ListConversations ==
  /\ pc = "idle"
  /\ client # NoClient
  /\ \E args \in ListConversationsArgs, tr \in ListTransports :
       Finish("list_conversations", args,
              list_conversations(client, session, args, tr))

GetConversation ==
  /\ pc = "idle"
  /\ client # NoClient
  /\ \E id \in Ids, tr \in MethodTransports :
       Finish("get_conversation", [conversation_id |-> id],
              get_conversation(client, session, id, tr))

GetUsage ==
  /\ pc = "idle"
  /\ client # NoClient
  /\ \E args \in GetUsageArgs, tr \in MethodTransports :
       Finish("get_usage", args, get_usage(client, session, args, tr))

GetCreditBalance ==
  /\ pc = "idle"
  /\ client # NoClient
  /\ \E tr \in MethodTransports :
       Finish("get_credit_balance", <<>>, get_credit_balance(client, session, tr))

GetAccountLimits ==
  /\ pc = "idle"
  /\ client # NoClient
  /\ \E tr \in MethodTransports :
       Finish("get_account_limits", <<>>, get_account_limits(client, session, tr))

\* The caller assigns to an attribute of the record a method just returned.
SetAttr ==
  /\ pc = "done"
  /\ lastOp.name \in {"get_agent", "create_agent", "update_agent"}
  /\ outcome.type = "return"
  /\ \E field \in AssignFields, value \in AssignValues :
       LET r == __setattr__(outcome.value, field, value) IN
       /\ lastOp' = [name |-> "__setattr__",
                     args |-> [record |-> outcome.value, field |-> field,
                               value |-> value]]
       /\ outcome' = r.out
       /\ subject' = r.record
  /\ pc' = "done"
  /\ sent' = <<>>
  /\ resp' = NoResp
  /\ reqOutcome' = NoOutcome
  /\ UNCHANGED <<client, session, scope, prev>>

\* The caller takes the result (or handles the exception) and goes on.
Continue ==
  /\ pc = "done"
  /\ pc' = "idle"
  /\ lastOp' = NoOp
  /\ sent' = <<>>
  /\ resp' = NoResp
  /\ reqOutcome' = NoOutcome
  /\ outcome' = NoOutcome
  /\ subject' = NoRecord
  /\ UNCHANGED <<client, session, scope, prev>>

\* As Continue, the caller keeping the finished call to compare the next with.
ContinueRemembering ==
  /\ pc = "done"
  /\ pc' = "idle"
  /\ prev' = [op |-> lastOp, sent |-> sent, resp |-> resp, outcome |-> outcome]
  /\ lastOp' = NoOp
  /\ sent' = <<>>
  /\ resp' = NoResp
  /\ reqOutcome' = NoOutcome
  /\ outcome' = NoOutcome
  /\ subject' = NoRecord
  /\ UNCHANGED <<client, session, scope>>

Next ==
  \/ Construct
  \/ Close
  \/ Request
  \/ CreateAgent
  \/ GetAgent
  \/ ListAgents
  \/ UpdateAgent
  \/ DeleteAgent
  \/ StartCall
  \/ GetCall
  \/ GetCallTranscript
  \/ GetCallRecording
  \/ ListCalls
  \/ CreateWebhook
  \/ ListWebhooks
  \/ GetWebhook
  \/ UpdateWebhook
  \/ DeleteWebhook
  \/ GetAvailableWebhookEvents
  \/ CreateUserWebhook
  \/ ListUserWebhooks
  \/ GetUserWebhook
  \/ UpdateUserWebhook
  \/ DeleteUserWebhook
  \/ GetCreditsSimple
  \/ GetCreditsDetailed
  \/ CheckCreditsByOwnerId
  \/ GetUserPhoneNumbers
  \/ ListConversations
  \/ GetConversation
  \/ GetUsage
  \/ GetCreditBalance
  \/ GetAccountLimits
  \/ SetAttr
  \/ Continue

Spec == Init /\ [][Next]_vars

\* The client used through a with statement: construction, entry, the calls of
\* the body, exit, and calls after it.
NextScope ==
  \/ Construct
  \/ Enter
  \/ Exit
  \/ Request
  \/ GetAgent
  \/ DeleteAgent
  \/ ListWebhooks
  \/ Continue

SpecScope == Init /\ [][NextScope]_vars

\* Successive calls on one client, the caller remembering one earlier call.
NextHistory ==
  \/ Construct
  \/ Close
  \/ Request
  \/ GetAgent
  \/ DeleteAgent
  \/ ListWebhooks
  \/ Continue
  \/ ContinueRemembering

SpecHistory == Init /\ [][NextHistory]_vars

(***************************************************************************)
(* One call in time: the method runs up to session.request, the request is *)
(* in the transport's hands, the transport answers, the method runs on to  *)
(* its return or raise.                                                    *)
(***************************************************************************)
\* The caller calls a method on the open client.  The method raises at once
\* when its own checks fail; otherwise it hands one request to the transport
\* and blocks in session.request (client.py:35).
Begin ==
  /\ pc = "idle"
  /\ client # NoClient
  /\ session = "open"
  /\ \E op \in Ops, tr \in InFlightOutcomes :
       LET r == Invoke(client, session, op, tr) IN
       /\ lastOp' = op
       /\ sent' = r.sent
       /\ IF r.sent = <<>>
          THEN pc' = "done" /\ reqOutcome' = r.reqOut /\ outcome' = r.out
          ELSE pc' = "waiting" /\ reqOutcome' = NoOutcome /\ outcome' = NoOutcome
  /\ resp' = NoResp
  /\ UNCHANGED <<client, session, scope, subject, prev>>

\* The transport ends the wait: a response arrives, the connection fails, or
\* the timeout of the session (client.py:27) expires.
Deliver ==
  /\ pc = "waiting"
  /\ \E tr \in InFlightOutcomes : resp' = tr
  /\ pc' = "answered"
  /\ UNCHANGED <<client, session, scope, lastOp, sent, reqOutcome, outcome, subject, prev>>

\* Variant: a request the transport failed is waited for again.
CompleteRetrying ==
  /\ pc = "answered"
  /\ LET r == Invoke(client, session, lastOp, resp) IN
     IF resp.kind = "error"
     THEN pc' = "waiting" /\ resp' = NoResp /\ UNCHANGED <<reqOutcome, outcome>>
     ELSE pc' = "done" /\ reqOutcome' = r.reqOut /\ outcome' = r.out /\ UNCHANGED resp
  /\ UNCHANGED <<client, session, scope, lastOp, sent, subject, prev>>

\* session.request has returned or raised; the rest of _request and of the
\* method is straight-line code (client.py:36-60) ending in return or raise.
Complete ==
  /\ pc = "answered"
  /\ LET r == Invoke(client, session, lastOp, resp) IN
     /\ reqOutcome' = r.reqOut
     /\ outcome' = r.out
  /\ pc' = "done"
  /\ UNCHANGED <<client, session, scope, lastOp, sent, resp, subject, prev>>

NextCall ==
  \/ Construct
  \/ Begin
  \/ Deliver
  \/ Complete
  \/ Continue

\* The transport always ends the wait (at the latest by the timeout), and the
\* interpreter goes on running the method once session.request is back.
SpecCall ==
  Init /\ [][NextCall]_vars /\ WF_vars(Deliver) /\ WF_vars(Complete)

(***************************************************************************)
(* Vocabulary of the properties                                            *)
(***************************************************************************)
TypedMethods ==
  [ create_agent |-> "Agent", get_agent |-> "Agent", update_agent |-> "Agent",
    start_call |-> "Call", get_call |-> "Call",
    get_call_transcript |-> "TranscriptResponse",
    get_call_recording |-> "RecordingResponse",
    create_webhook |-> "Webhook", get_webhook |-> "Webhook",
    update_webhook |-> "Webhook",
    create_user_webhook |-> "UserWebhook", get_user_webhook |-> "UserWebhook",
    update_user_webhook |-> "UserWebhook",
    get_credits_simple |-> "UserCreditsSimpleResponse",
    get_credits_detailed |-> "UserCreditsResponse",
    check_credits_by_owner_id |-> "UserCreditsSimpleResponse" ]

ListMethods ==
  [ list_agents |-> "Agent", list_calls |-> "Call", list_webhooks |-> "Webhook",
    list_user_webhooks |-> "UserWebhook", get_user_phone_numbers |-> "PhoneNumber" ]

DeleteMethods == {"delete_agent", "delete_webhook", "delete_user_webhook"}

RawMethods ==
  {"get_available_webhook_events", "list_conversations", "get_conversation",
   "get_usage", "get_credit_balance", "get_account_limits"}

ResourceMethods ==
  DOMAIN TypedMethods \cup DOMAIN ListMethods \cup DeleteMethods \cup RawMethods

UpdateMethods == {"update_agent", "update_webhook", "update_user_webhook"}

UpdateParams(name) ==
  CASE name = "update_agent"        -> UpdateAgentParams
    [] name = "update_webhook"      -> UpdateWebhookParams
    [] name = "update_user_webhook" -> UpdateUserWebhookParams

Answered == resp.kind = "response"

Answered2xx == Answered /\ IsSuccess(resp.status)

AnsweredNon2xx == Answered /\ ~IsSuccess(resp.status)

\* The body is a JSON object (an envelope) whose success field is exactly b.
EnvelopeSuccessIs(b) ==
  /\ resp.body.json.t = "dict"
  /\ "success" \in DOMAIN resp.body.json.v
  /\ resp.body.json.v["success"] = PyBool(b)

\* The JSON object j carries error.message.
HasErrorMessage(j) ==
  /\ j.t = "dict"
  /\ "error" \in DOMAIN j.v
  /\ j.v["error"].t = "dict"
  /\ "message" \in DOMAIN j.v["error"].v

\* The JSON object j has no error field, or an error object without a message.
ErrorWithoutMessage(j) ==
  /\ j.t = "dict"
  /\ "error" \in DOMAIN j.v => j.v["error"].t = "dict" /\ "message" \notin DOMAIN j.v["error"].v

SpecificKinds == {"AuthenticationError", "NotFoundError", "RateLimitError"}

\* The operation failed its local validation: it raised before calling _request.
LocalValidationFailed ==
  /\ lastOp.name \in {"__init__", "create_agent"}
  /\ outcome.type = "raise"
  /\ outcome.exc = "ValueError"

\* The arguments of the operation violate its local precondition as the code
\* tests it: a falsy api key; prompt and stages both falsy or both truthy.
InvalidArguments ==
  \/ lastOp.name = "__init__" /\ ~Truthy(lastOp.args.api_key)
  \/ lastOp.name = "create_agent"
       /\ Truthy(lastOp.args.prompt) = Truthy(lastOp.args.stages)

\* The transport failed, or answered with a failure.
FailureAnswer ==
  \/ resp.kind = "error"
  \/ AnsweredNon2xx
  \/ Answered2xx /\ EnvelopeSuccessIs(FALSE)

\* The dumped list holds one dict per stage, in order, with the stage's fields.
SameStages(dumped, stages) ==
  /\ dumped.t = "list"
  /\ Len(dumped.v) = Len(stages.v)
  /\ \A i \in 1..Len(stages.v) :
        dumped.v[i].t = "dict" /\ dumped.v[i].v = stages.v[i].v

(***************************************************************************)
(* Properties of CallWhiz._request                                         *)
(***************************************************************************)
\* C1: a response with status 401, 404 or 429 makes _request raise
\* AuthenticationError, NotFoundError or RateLimitError respectively, never the
\* plain CallWhizError, whatever the body is.
C1_SpecificErrorFor401_404_429 ==
  (Answered /\ resp.status \in {401, 404, 429}) =>
     /\ reqOutcome.type = "raise"
     /\ reqOutcome.exc = (CASE resp.status = 401 -> "AuthenticationError"
                            [] resp.status = 404 -> "NotFoundError"
                            [] resp.status = 429 -> "RateLimitError")
     /\ reqOutcome.exc # "CallWhizError"

\* A 404 whose body is a success=true envelope was answered with NotFoundError.
C1_Witness ==
  /\ Answered /\ resp.status = 404
  /\ EnvelopeSuccessIs(TRUE)
  /\ reqOutcome.type = "raise" /\ reqOutcome.exc = "NotFoundError"

\* C2 (as stated): a 2xx response whose envelope has success=false makes
\* _request raise the generic CallWhizError whose message is the envelope's
\* error.message, or 'Unknown error' when the envelope carries no error message;
\* it never returns a value.
C2_SuccessFalseRaisesGeneric ==
  (Answered2xx /\ EnvelopeSuccessIs(FALSE)) =>
     /\ reqOutcome.type = "raise"
     /\ reqOutcome.exc = "CallWhizError"
     /\ reqOutcome.msg = IF HasErrorMessage(resp.body.json)
                         THEN resp.body.json.v["error"].v["message"]
                         ELSE PyStr(<<"Unknown error">>)

\* C3 (as stated): a non-2xx response other than 401/404/429 makes _request
\* raise the generic CallWhizError, and the error carries the HTTP status code
\* and the response body, for every kind of body.
C3_GenericCarriesStatusAndBody ==
  (AnsweredNon2xx /\ resp.status \notin {401, 404, 429}) =>
     /\ reqOutcome.type = "raise"
     /\ reqOutcome.exc = "CallWhizError"
     /\ reqOutcome.msg.t = "str"
     /\ Contains(reqOutcome.msg.v, Fmt(resp.status))
     /\ Contains(reqOutcome.msg.v, resp.body.text)

\* C3 (amended): a non-2xx response other than 401/404/429 makes _request raise
\* the generic CallWhizError, never a specific kind; its message is the body's
\* error.message when the body is a JSON object whose error is an object with a
\* message, 'HTTP <status>' when the body is a JSON object with no error field
\* or an error object without message, and 'HTTP <status>: <body text>' in
\* every other case.
C3_GenericErrorMessage ==
  (AnsweredNon2xx /\ resp.status \notin {401, 404, 429}) =>
     /\ reqOutcome.type = "raise"
     /\ reqOutcome.exc = "CallWhizError"
     /\ reqOutcome.exc \notin SpecificKinds
     /\ reqOutcome.msg =
          IF HasErrorMessage(resp.body.json)
          THEN resp.body.json.v["error"].v["message"]
          ELSE IF ErrorWithoutMessage(resp.body.json)
          THEN PyStr(<<"HTTP ", ToString(resp.status)>>)
          ELSE PyStr(<<"HTTP ", ToString(resp.status), ": ">> \o resp.body.text)

\* A 500 with an error envelope was answered with the envelope's message alone.
C3_Witness ==
  /\ Answered /\ resp.status = 500
  /\ HasErrorMessage(resp.body.json)
  /\ reqOutcome = Raise("CallWhizError", PyStr(<<"Custom error message">>))

\* C4: when the transport fails before any response exists, _request raises the
\* generic CallWhizError whose message starts with 'Request failed' and contains
\* the cause; the transport's exception type does not reach the caller.
C4_TransportFailureWrapped ==
  resp.kind = "error" =>
     /\ reqOutcome.type = "raise"
     /\ reqOutcome.exc = "CallWhizError"
     /\ ~IsInstance(reqOutcome.exc, "RequestError")
     /\ reqOutcome.msg.t = "str"
     /\ StartsWith(reqOutcome.msg.v, <<"Request failed">>)
     /\ Contains(reqOutcome.msg.v, resp.cause)
     /\ outcome = reqOutcome

\* A read timeout was reported as the generic error.
C4_Witness ==
  /\ resp.kind = "error" /\ resp.exc = "ReadTimeout" /\ Len(resp.cause) > 0
  /\ reqOutcome.type = "raise" /\ reqOutcome.exc = "CallWhizError"
  /\ Contains(reqOutcome.msg.v, resp.cause)

\* C5 (as stated): a 2xx response whose envelope has success=true makes _request
\* return exactly the envelope's data field, and raise nothing.
C5_SuccessReturnsData ==
  (Answered2xx /\ EnvelopeSuccessIs(TRUE)) =>
     /\ reqOutcome.type = "return"
     /\ "data" \in DOMAIN resp.body.json.v
     /\ reqOutcome.value = resp.body.json.v["data"]

(***************************************************************************)
(* Properties of the resource methods                                      *)
(***************************************************************************)
\* C6: in the PUT body of update_agent, update_webhook and update_user_webhook
\* every optional parameter that was omitted is absent, and every one that was
\* supplied is present with the supplied value, falsy values included.
C6_UpdateBodyHoldsSuppliedKeys ==
  (lastOp.name \in UpdateMethods /\ Len(sent) = 1) =>
     LET body == sent[1].payload.json.v IN
     /\ sent[1].method = "PUT"
     /\ \A p \in UpdateParams(lastOp.name) :
          /\ lastOp.args[p] = None => p \notin DOMAIN body
          /\ lastOp.args[p] # None =>
               /\ p \in DOMAIN body
               /\ IF p = "stages"
                  THEN SameStages(body[p], lastOp.args[p])
                  ELSE body[p] = lastOp.args[p]

\* update_webhook(active=False, headers={}) sent both keys and no url.
C6_Witness ==
  /\ lastOp.name = "update_webhook"
  /\ lastOp.args["active"] = PyBool(FALSE)
  /\ lastOp.args["headers"] = EmptyDict
  /\ lastOp.args["url"] = None
  /\ Len(sent) = 1
  /\ sent[1].payload.json.v["active"] = PyBool(FALSE)
  /\ sent[1].payload.json.v["headers"] = EmptyDict
  /\ "url" \notin DOMAIN sent[1].payload.json.v

\* C7 (as stated): create_agent raises a local validation error when neither or
\* both of prompt and stages are supplied and issues POST /agents when exactly
\* one is, where supplied means any value other than None.
C7_SuppliedMeansNotNone ==
  lastOp.name = "create_agent" =>
     LET n == Cardinality({p \in {"prompt", "stages"} : lastOp.args[p] # None}) IN
     /\ n # 1 => LocalValidationFailed /\ sent = <<>>
     /\ n = 1 => /\ Len(sent) = 1
                 /\ sent[1].method = "POST"
                 /\ sent[1].url = client.base_url \o <<"/agents">>

\* C7 (amended): create_agent raises a local validation error when neither or
\* both of prompt and stages are supplied, and goes on to _request POST /agents
\* (sent whenever the session is open) when exactly one is, where supplied means
\* a truthy value: None, an empty prompt and an empty stage list are all not
\* supplied.
C7_SuppliedMeansTruthy ==
  lastOp.name = "create_agent" =>
     LET n == Cardinality({p \in {"prompt", "stages"} : Truthy(lastOp.args[p])}) IN
     /\ n # 1 => LocalValidationFailed /\ sent = <<>> /\ reqOutcome = NoOutcome
     /\ n = 1 => /\ reqOutcome # NoOutcome
                 /\ session = "open" =>
                      /\ Len(sent) = 1
                      /\ sent[1].method = "POST"
                      /\ sent[1].url = client.base_url \o <<"/agents">>

\* create_agent(prompt="") was rejected locally.
C7_Witness ==
  /\ lastOp.name = "create_agent"
  /\ lastOp.args["prompt"] = PyStr(<<>>)
  /\ lastOp.args["stages"] = None
  /\ outcome.type = "raise" /\ outcome.exc = "ValueError"
  /\ sent = <<>>

\* C8: when a local validation failure is raised (constructor without api key,
\* create_agent with an invalid prompt/stages combination) the operation has
\* issued no HTTP request.
C8_ValidationPrecedesSend ==
  LocalValidationFailed => sent = <<>> /\ resp = NoResp

\* create_agent with both prompt and stages failed on an open session.
C8_Witness ==
  /\ lastOp.name = "create_agent"
  /\ Truthy(lastOp.args["prompt"]) /\ Truthy(lastOp.args["stages"])
  /\ session = "open"
  /\ outcome.type = "raise" /\ outcome.exc = "ValueError"
  /\ sent = <<>>

\* C9 (as stated): every resource method call issues at most one HTTP request,
\* exactly one when local validation passes; after a failure no second request
\* is sent and the failure is raised to the caller.
C9_ExactlyOneRequest ==
  lastOp.name \in ResourceMethods =>
     /\ Len(sent) <= 1
     /\ ~LocalValidationFailed => Len(sent) = 1
     /\ FailureAnswer => outcome.type = "raise" /\ outcome = reqOutcome

\* C9 (amended): every resource method call issues at most one HTTP request,
\* and exactly one when local validation passes and the session is open; after
\* a failure no second request is sent and the failure is raised to the caller.
C9_ExactlyOneRequestWhenOpen ==
  lastOp.name \in ResourceMethods =>
     /\ Len(sent) <= 1
     /\ (~LocalValidationFailed /\ session = "open") => Len(sent) = 1
     /\ FailureAnswer => outcome.type = "raise" /\ outcome = reqOutcome

\* get_agent met a 500 and raised after its single request.
C9_Witness ==
  /\ lastOp.name = "get_agent"
  /\ Answered /\ resp.status = 500
  /\ Len(sent) = 1
  /\ outcome.type = "raise"

\* C10 (as stated): every failure kind (authentication, not-found, rate-limit,
\* generic service, local validation, transport) is raised as an instance of
\* CallWhizError.
C10_EveryFailureIsCallWhizError ==
  (outcome.type = "raise" /\ (InvalidArguments \/ FailureAnswer)) =>
     IsInstance(outcome.exc, "CallWhizError")

\* C10 (amended): the failures raised for a non-2xx response, for a transport
\* failure and for a 2xx success=false envelope whose error is absent or an
\* object are instances of CallWhizError; the local validation failures of the
\* constructor and of create_agent are ValueError, which is not a CallWhizError.
C10_RequestFailuresShareBase ==
  /\ ( \/ AnsweredNon2xx
       \/ resp.kind = "error"
       \/ /\ Answered2xx /\ EnvelopeSuccessIs(FALSE)
          /\ HasErrorMessage(resp.body.json) \/ ErrorWithoutMessage(resp.body.json) )
       => outcome.type = "raise" /\ IsInstance(outcome.exc, "CallWhizError")
  /\ InvalidArguments =>
       /\ outcome.type = "raise"
       /\ outcome.exc = "ValueError"
       /\ ~IsInstance(outcome.exc, "CallWhizError")

\* The constructor rejected an empty api key with a ValueError.
C10_Witness ==
  /\ lastOp.name = "__init__"
  /\ lastOp.args.api_key = PyStr(<<>>)
  /\ outcome.type = "raise" /\ outcome.exc = "ValueError"

(***************************************************************************)
(* Properties of the typed results                                         *)
(***************************************************************************)
\* The response is a 2xx success=true envelope that carries a data field.
SuccessEnvelope ==
  Answered2xx /\ EnvelopeSuccessIs(TRUE) /\ "data" \in DOMAIN resp.body.json.v

RespData == resp.body.json.v["data"]

\* p is a payload object of resource cls: a JSON object with every required
\* field of cls, each declared field of a type the record accepts.
ValidPayload(cls, p) ==
  /\ p.t = "dict"
  /\ \A f \in DOMAIN ModelFields[cls] :
        IF f \in DOMAIN p.v THEN FieldOK(ModelFields[cls][f], p.v[f])
        ELSE f \in DOMAIN ModelDefaults[cls]

\* Python == between a field of a record and a JSON value.
Equal(a, b) == a.t = b.t /\ a = b

\* Every field of the record that the payload has is equal to the payload's.
RecordEquals(rec, payload) ==
  \A f \in DOMAIN rec.v \cap DOMAIN payload.v : Equal(rec.v[f], payload.v[f])

RECURSIVE Holds(_, _)
\* The record field a holds the JSON value b: equal to it, or the datetime the
\* timestamp string b denotes, or the nested record(s) built from the object b
\* with the defaults for what b leaves out.
Holds(a, b) ==
  \/ Equal(a, b) /\ a.t # "dict"
  \/ a.t = "datetime" /\ b.t = "str" /\ a.v = b.v
  \/ /\ a.t \in DOMAIN ModelFields /\ b.t = "dict"
     /\ \A f \in DOMAIN a.v :
           IF f \in DOMAIN b.v THEN Holds(a.v[f], b.v[f])
           ELSE a.v[f] = ModelDefaults[a.t][f]
  \/ /\ a.t = "dict" /\ b.t = "dict" /\ DOMAIN a.v = DOMAIN b.v
     /\ \A k \in DOMAIN a.v : Holds(a.v[k], b.v[k])

\* rec is the cls record of the payload: its fields are exactly the declared
\* ones, each holding the payload's value or, without one, its default.
RecordHolds(cls, rec, payload) ==
  /\ rec.t = cls
  /\ DOMAIN rec.v = DOMAIN ModelFields[cls]
  /\ Holds(rec, payload)

\* A list operation was answered by a success envelope whose data is an array
\* of payload objects of its resource.
ListAnswered ==
  /\ lastOp.name \in DOMAIN ListMethods
  /\ SuccessEnvelope
  /\ RespData.t = "list"
  /\ \A i \in 1..Len(RespData.v) : ValidPayload(ListMethods[lastOp.name], RespData.v[i])

\* C11 (as stated): a list operation answered with an array of N payload
\* objects returns exactly N typed records, the i-th built from the i-th
\* payload with every field equal to that payload's field.
C11_RecordsEqualPayloads ==
  ListAnswered =>
     /\ outcome.type = "return"
     /\ outcome.value.t = "list"
     /\ Len(outcome.value.v) = Len(RespData.v)
     /\ \A i \in 1..Len(RespData.v) :
           /\ outcome.value.v[i].t = ListMethods[lastOp.name]
           /\ RecordEquals(outcome.value.v[i], RespData.v[i])

\* C11 (amended): a list operation answered with an array of N payload objects
\* of its resource returns exactly N typed records in the array's order, the
\* i-th holding, field by field, the i-th payload's value converted to the
\* field's declared type (a timestamp string becomes a datetime, a nested
\* object the nested record), and the default for a field the payload lacks.
C11_RecordsHoldPayloads ==
  ListAnswered =>
     /\ outcome.type = "return"
     /\ outcome.value.t = "list"
     /\ Len(outcome.value.v) = Len(RespData.v)
     /\ \A i \in 1..Len(RespData.v) :
           RecordHolds(ListMethods[lastOp.name], outcome.value.v[i], RespData.v[i])

\* list_agents answered with [a1, a2] returned the two agents in that order,
\* created_at being a datetime.
C11_Witness ==
  /\ lastOp.name = "list_agents"
  /\ ListAnswered
  /\ Len(RespData.v) = 2
  /\ outcome.type = "return"
  /\ Len(outcome.value.v) = 2
  /\ outcome.value.v[1].v["id"] = PyStr(<<"a1">>)
  /\ outcome.value.v[2].v["id"] = PyStr(<<"a2">>)
  /\ outcome.value.v[1].v["created_at"].t = "datetime"

\* C12 (as stated): delete_agent, delete_webhook and delete_user_webhook return
\* True exactly when the DELETE was answered 2xx with a success=true envelope,
\* and raise in every other case; they never return False or None.
C12_DeleteTrueIffSucceeded ==
  lastOp.name \in DeleteMethods =>
     /\ (Answered2xx /\ EnvelopeSuccessIs(TRUE)) => outcome = Return(PyBool(TRUE))
     /\ ~(Answered2xx /\ EnvelopeSuccessIs(TRUE)) => outcome.type = "raise"
     /\ outcome.type = "return" => outcome.value = PyBool(TRUE)

(***************************************************************************)
(* Properties of the session's life cycle                                  *)
(***************************************************************************)
\* C13: once the session is closed it stays closed; every resource method
\* called on the closed client raises and issues no HTTP request; close() on
\* the closed client raises nothing and leaves the session closed.
C13_ClosedStaysClosed ==
  [][ session = "closed" =>
        /\ session' = "closed"
        /\ (pc = "idle" /\ pc' = "done" /\ lastOp'.name \in ResourceMethods) =>
              /\ outcome'.type = "raise"
              /\ sent' = <<>>
              /\ resp' = NoResp
        /\ (pc = "idle" /\ pc' = "done" /\ lastOp'.name = "close") =>
              outcome' = Return(None) ]_vars

\* get_agent on a closed client raised without sending anything.
C13_Witness ==
  /\ session = "closed"
  /\ lastOp.name = "get_agent"
  /\ outcome.type = "raise" /\ outcome.exc = "RuntimeError"
  /\ sent = <<>>

C15_ConstructorRequiresKey ==
  lastOp.name = "__init__" =>
     IF lastOp.args.api_key \in {None, PyStr(<<>>)}
     THEN /\ outcome = Raise("ValueError", PyStr(<<"API key is required">>))
          /\ client = NoClient
          /\ session = "absent"
     ELSE /\ outcome.type = "return"
          /\ client # NoClient
          /\ client.api_key = lastOp.args.api_key
          /\ session = "open"

\* CallWhiz(None) raised and left no session; nothing was sent.
C15_Witness ==
  /\ lastOp.name = "__init__"
  /\ lastOp.args.api_key = None
  /\ outcome.type = "raise" /\ outcome.exc = "ValueError"
  /\ session = "absent"

(***************************************************************************)
(* Properties of the outgoing body and query                               *)
(***************************************************************************)
\* The optional parameters of the methods that have some (the update methods
\* are C6's).
OptionalParams ==
  [ list_agents          |-> {"status"},
    list_calls           |-> ListCallsFilters,
    list_conversations   |-> ListConversationsFilters,
    get_usage            |-> {"from_date", "to_date"},
    get_credits_simple   |-> {"user_id"},
    get_credits_detailed |-> {"user_id"},
    start_call           |-> {"context", "webhook_url", "metadata"},
    create_agent         |-> {"description", "language", "accent", "first_message",
                              "webhook_ids", "prompt", "stages"},
    create_webhook       |-> {"agent_ids", "retry_policy", "headers"},
    create_user_webhook  |-> CreateUserWebhookOptions ]

\* The required parameters, the pagination and the defaulted parameters.
AlwaysSent ==
  [ list_agents          |-> {"page", "limit"},
    list_calls           |-> {"page", "limit"},
    list_conversations   |-> {"page", "limit"},
    get_usage            |-> {"period"},
    get_credits_simple   |-> {},
    get_credits_detailed |-> {},
    start_call           |-> {"agent_id", "phone_number"},
    create_agent         |-> {"name", "model", "voice"},
    create_webhook       |-> {"url", "events", "active"},
    create_user_webhook  |-> {"name", "description", "endpoint", "method"} ]

\* The methods whose optional parameters go into the query string.
QueryMethods ==
  {"list_agents", "list_calls", "list_conversations", "get_usage",
   "get_credits_simple", "get_credits_detailed"}

\* The keys of the body or query of the request the call sent.
SentKeys ==
  IF "json" \in DOMAIN sent[1].payload
  THEN sent[1].payload.json.v
  ELSE sent[1].payload.params.v

\* The key p was sent with the value the caller gave.
SentAsGiven(p) ==
  /\ p \in DOMAIN SentKeys
  /\ IF p = "stages"
     THEN SameStages(SentKeys[p], lastOp.args[p])
     ELSE SentKeys[p] = lastOp.args[p]

\* C16 (as stated): an optional parameter's key is in the outgoing body or
\* query, with the supplied value, if and only if the parameter was supplied,
\* that is, is not None; required parameters and pagination are always sent;
\* no key is sent with a null value.
C16_OptionalKeySentIffNotNone ==
  (lastOp.name \in DOMAIN OptionalParams /\ Len(sent) = 1) =>
     /\ \A p \in OptionalParams[lastOp.name] :
           /\ (p \in DOMAIN SentKeys) <=> (lastOp.args[p] # None)
           /\ p \in DOMAIN SentKeys => SentAsGiven(p)
     /\ \A p \in AlwaysSent[lastOp.name] : SentAsGiven(p)
     /\ \A k \in DOMAIN SentKeys : SentKeys[k] # None

\* The test the code applies to the optional parameter p of method name.
Present(name, p, x) ==
  IF name \in QueryMethods \/ p \in {"prompt", "stages"} THEN Truthy(x) ELSE x # None

\* C16 (amended): an optional parameter's key is in the outgoing body or query,
\* with the supplied value, if and only if the parameter is truthy, for the
\* query filters (list filters, get_usage dates, credits user_id) and for
\* create_agent's prompt and stages, and if and only if it is not None for the
\* other body options of start_call and create_*; required parameters,
\* pagination and defaulted parameters are always sent as given; the request
\* has no other key, and no optional key is sent with a null value.
C16_OptionalKeySentIffPresent ==
  (lastOp.name \in DOMAIN OptionalParams /\ Len(sent) = 1) =>
     /\ \A p \in OptionalParams[lastOp.name] :
           /\ (p \in DOMAIN SentKeys) <=> Present(lastOp.name, p, lastOp.args[p])
           /\ p \in DOMAIN SentKeys => SentAsGiven(p) /\ SentKeys[p] # None
     /\ \A p \in AlwaysSent[lastOp.name] : SentAsGiven(p)
     /\ DOMAIN SentKeys \subseteq OptionalParams[lastOp.name] \cup AlwaysSent[lastOp.name]

\* list_calls(agent_id="X", status="") sent agent_id and no status.
C16_Witness ==
  /\ lastOp.name = "list_calls"
  /\ lastOp.args["agent_id"] = PyStr(<<"X">>)
  /\ lastOp.args["status"] = PyStr(<<>>)
  /\ Len(sent) = 1
  /\ SentKeys["agent_id"] = PyStr(<<"X">>)
  /\ "status" \notin DOMAIN SentKeys
  /\ "page" \in DOMAIN SentKeys

\* create_agent, get_agent or update_agent was answered by a success envelope
\* whose data is an agent payload.
AgentAnswered ==
  /\ lastOp.name \in {"create_agent", "get_agent", "update_agent"}
  /\ SuccessEnvelope
  /\ ValidPayload("Agent", RespData)

\* The fields the payload leaves out have the defaults of models.py.
AgentDefaults(rec, payload) ==
  /\ "description" \notin DOMAIN payload.v => rec.v["description"] = None
  /\ "accent" \notin DOMAIN payload.v => rec.v["accent"] = None
  /\ "webhook_ids" \notin DOMAIN payload.v => rec.v["webhook_ids"] = PyList(<<>>)
  /\ "has_stages" \notin DOMAIN payload.v => rec.v["has_stages"] = PyBool(FALSE)
  /\ "stage_count" \notin DOMAIN payload.v => rec.v["stage_count"] = PyInt(0)

\* C17 (as stated): create_agent (with exactly one of prompt/stages), get_agent
\* and update_agent answered by a 2xx success envelope return one Agent record
\* whose fields equal the payload's fields, the fields missing from the payload
\* taking their defaults.
C17_AgentEqualsPayload ==
  AgentAnswered =>
     /\ outcome.type = "return"
     /\ outcome.value.t = "Agent"
     /\ RecordEquals(outcome.value, RespData)
     /\ AgentDefaults(outcome.value, RespData)

\* C17 (amended): they return one Agent record whose fields hold the payload's
\* values converted to the declared types: created_at and updated_at are the
\* datetimes the payload's timestamp strings denote, every other field equals
\* the payload's field, and the fields missing from the payload take their
\* defaults (description and accent None, webhook_ids empty, has_stages false,
\* stage_count 0).
C17_AgentHoldsPayload ==
  AgentAnswered =>
     /\ outcome.type = "return"
     /\ RecordHolds("Agent", outcome.value, RespData)
     /\ \A f \in (DOMAIN outcome.value.v \cap DOMAIN RespData.v)
                   \ {"created_at", "updated_at"} :
           Equal(outcome.value.v[f], RespData.v[f])
     /\ \A f \in {"created_at", "updated_at"} :
           outcome.value.v[f] = [t |-> "datetime", v |-> RespData.v[f].v]
     /\ AgentDefaults(outcome.value, RespData)

\* create_agent(prompt=...) answered with the required fields only returned
\* the agent a1 with the defaults filled in.
C17_Witness ==
  /\ lastOp.name = "create_agent"
  /\ Truthy(lastOp.args["prompt"]) /\ ~Truthy(lastOp.args["stages"])
  /\ AgentAnswered
  /\ "has_stages" \notin DOMAIN RespData.v
  /\ outcome.type = "return"
  /\ outcome.value.v["id"] = PyStr(<<"a1">>)
  /\ outcome.value.v["has_stages"] = PyBool(FALSE)
  /\ outcome.value.v["stage_count"] = PyInt(0)
  /\ outcome.value.v["webhook_ids"] = PyList(<<>>)

\* C18 (as stated): a typed record returned by a resource method is immutable:
\* no operation of the caller, attribute assignment included, changes any of
\* its fields.
C18_RecordImmutable ==
  [][ lastOp'.name = "__setattr__" => subject' = outcome.value ]_vars

\* C18 (amended): the records are ordinary mutable pydantic models.  Assigning
\* to a declared field succeeds and replaces that field with the value given,
\* unvalidated, leaving the other fields as they were; assigning to a name the
\* record does not declare raises ValueError and changes nothing.
C18_AssignmentReplacesField ==
  [][ lastOp'.name = "__setattr__" =>
        LET record == outcome.value
            field == lastOp'.args.field
            value == lastOp'.args.value IN
        /\ lastOp'.args.record = record
        /\ subject'.t = record.t
        /\ DOMAIN subject'.v = DOMAIN record.v
        /\ IF field \in DOMAIN record.v
           THEN /\ outcome' = Return(None)
                /\ subject'.v[field] = value
                /\ \A f \in DOMAIN record.v \ {field} : subject'.v[f] = record.v[f]
           ELSE /\ outcome'.type = "raise" /\ outcome'.exc = "ValueError"
                /\ subject' = record ]_vars

\* agent.name = None went through on an agent get_agent returned.
C18_Witness ==
  /\ lastOp.name = "__setattr__"
  /\ lastOp.args.field = "name"
  /\ lastOp.args.value = None
  /\ lastOp.args.record.v["name"] = PyStr(<<"X">>)
  /\ outcome = Return(None)
  /\ subject.v["name"] = None

(***************************************************************************)
(* Properties of successive calls                                          *)
(***************************************************************************)
GetOrListMethods == {"get_agent", "list_webhooks"}

\* What a get or list method makes of the answer alone: the error of _request,
\* or the record(s) of the data in the response.
BuiltFromResponse(name) ==
  IF reqOutcome.type = "raise" THEN outcome = reqOutcome
  ELSE /\ SuccessEnvelope
       /\ IF name = "get_agent"
          THEN ValidPayload("Agent", RespData)
                 => outcome.type = "return" /\ RecordHolds("Agent", outcome.value, RespData)
          ELSE (RespData.t = "list"
                  /\ \A i \in 1..Len(RespData.v) : ValidPayload("Webhook", RespData.v[i]))
                 => /\ outcome.type = "return"
                    /\ Len(outcome.value.v) = Len(RespData.v)
                    /\ \A i \in 1..Len(RespData.v) :
                          RecordHolds("Webhook", outcome.value.v[i], RespData.v[i])

Calls == ResourceMethods \cup {"_request"}

RequestsCarry(headers) ==
  \A i \in 1..Len(sent) : sent[i].headers = headers

C22_CreateBodyOneMode ==
  lastOp.name = "create_agent" =>
    \A i \in 1..Len(sent) :
      LET body == sent[i].payload.json.v IN
      /\ DOMAIN sent[i].payload = {"json"}
      /\ {"name", "model", "voice"} \subseteq DOMAIN body
      /\ body["name"] = lastOp.args["name"]
      /\ body["model"] = lastOp.args["model"]
      /\ body["voice"] = lastOp.args["voice"]
      /\ Cardinality({"prompt", "stages"} \cap DOMAIN body) = 1
      /\ "prompt" \in DOMAIN body => body["prompt"] = lastOp.args["prompt"]
      /\ "stages" \in DOMAIN body => SameStages(body["stages"], lastOp.args["stages"])

\* create_agent sent two stages, in the caller's order.
C22_Witness ==
  /\ pc = "done"
  /\ lastOp.name = "create_agent"
  /\ lastOp.args["stages"] = PyList(<<Stage1, Stage2>>)
  /\ Len(sent) = 1
  /\ "prompt" \notin DOMAIN sent[1].payload.json.v
  /\ sent[1].payload.json.v["stages"].v[1].v["name"] = PyStr(<<"greeting">>)
  /\ sent[1].payload.json.v["stages"].v[2].v["name"] = PyStr(<<"closing">>)

(***************************************************************************)
(* C23: the verb and the path of each resource method                      *)
(***************************************************************************)
\* The collection path of the resource a method belongs to, and the text its
\* item paths start with.
CollectionPath ==
  [ agents |-> <<"/agents">>, calls |-> <<"/calls">>,
    webhooks |-> <<"/webhooks">>, user_webhooks |-> <<"/user-webhooks">> ]

ItemPrefix ==
  [ agents |-> <<"/agents/">>, calls |-> <<"/calls/">>,
    webhooks |-> <<"/webhooks/">>, user_webhooks |-> <<"/user-webhooks/">> ]

\* The methods of the four resources, by the resource they belong to.
ResourceOf ==
  [ create_agent |-> "agents", get_agent |-> "agents", list_agents |-> "agents",
    update_agent |-> "agents", delete_agent |-> "agents",
    start_call |-> "calls", get_call |-> "calls", list_calls |-> "calls",
    get_call_transcript |-> "calls", get_call_recording |-> "calls",
    create_webhook |-> "webhooks", get_webhook |-> "webhooks",
    list_webhooks |-> "webhooks", update_webhook |-> "webhooks",
    delete_webhook |-> "webhooks", get_available_webhook_events |-> "webhooks",
    create_user_webhook |-> "user_webhooks", get_user_webhook |-> "user_webhooks",
    list_user_webhooks |-> "user_webhooks", update_user_webhook |-> "user_webhooks",
    delete_user_webhook |-> "user_webhooks" ]

\* The argument that carries the id of the item a method addresses.
IdParam ==
  [ get_agent |-> "agent_id", update_agent |-> "agent_id", delete_agent |-> "agent_id",
    get_call |-> "call_id", get_call_transcript |-> "call_id",
    get_call_recording |-> "call_id",
    get_webhook |-> "webhook_id", update_webhook |-> "webhook_id",
    delete_webhook |-> "webhook_id",
    get_user_webhook |-> "webhook_id", update_user_webhook |-> "webhook_id",
    delete_user_webhook |-> "webhook_id" ]

\* The methods by the prefix of their name.
CreateNamed == {"create_agent", "create_webhook", "create_user_webhook"}

GetNamed ==
  {"get_agent", "get_call", "get_call_transcript", "get_call_recording",
   "get_webhook", "get_available_webhook_events", "get_user_webhook"}

ListNamed == {"list_agents", "list_calls", "list_webhooks", "list_user_webhooks"}

\* The item path of the method that finished: collection path, "/", given id.
ItemPath ==
  ItemPrefix[ResourceOf[lastOp.name]] \o lastOp.args[IdParam[lastOp.name]]

\* Every request that the finished method sent has this verb and this path.
SentTo(verb, path) ==
  \A i \in 1..Len(sent) :
    sent[i].method = verb /\ sent[i].url = client.base_url \o path

\* C23 (as stated): each resource method of agents, calls, webhooks and
\* user-webhooks has one fixed verb and path template: create_* sends POST to
\* the collection path, get_* sends GET to the collection path plus the
\* given id, update_* sends PUT to that item path, delete_* sends DELETE to
\* it, list_* sends GET to the collection path; the URL is the configured
\* base URL followed by that path.
C23_VerbAndPathByPrefix ==
  (lastOp.name \in DOMAIN ResourceOf /\ lastOp.name # "start_call") =>
    LET name == lastOp.name
        coll == CollectionPath[ResourceOf[name]] IN
    /\ name \in CreateNamed   => SentTo("POST", coll)
    /\ name \in ListNamed     => SentTo("GET", coll)
    /\ name \in GetNamed      => sent = <<>> \/ (name \in DOMAIN IdParam /\ SentTo("GET", ItemPath))
    /\ name \in UpdateMethods => SentTo("PUT", ItemPath)
    /\ name \in DeleteMethods => SentTo("DELETE", ItemPath)

\* C23 (amended): each resource method of agents, calls, webhooks and
\* user-webhooks has one fixed verb and path template: create_agent,
\* start_call, create_webhook and create_user_webhook send POST to the
\* collection path; get_agent, get_call, get_webhook and get_user_webhook
\* send GET to the collection path plus the given id, the update_* methods
\* PUT and the delete_* methods DELETE to that same item path; the list_*
\* methods send GET to the collection path; get_call_transcript and
\* get_call_recording send GET to the call's item path followed by
\* /transcript and /recording, and get_available_webhook_events sends GET to
\* /webhooks/events; the URL is the configured base URL followed by that path.
C23_VerbAndPath ==
  lastOp.name \in DOMAIN ResourceOf =>
    LET name == lastOp.name
        coll == CollectionPath[ResourceOf[name]] IN
    /\ name \in CreateNamed \cup {"start_call"} => SentTo("POST", coll)
    /\ name \in ListNamed     => SentTo("GET", coll)
    /\ name \in {"get_agent", "get_call", "get_webhook", "get_user_webhook"} =>
         SentTo("GET", ItemPath)
    /\ name = "get_call_transcript" => SentTo("GET", ItemPath \o <<"/transcript">>)
    /\ name = "get_call_recording"  => SentTo("GET", ItemPath \o <<"/recording">>)
    /\ name = "get_available_webhook_events" => SentTo("GET", <<"/webhooks/events">>)
    /\ name \in UpdateMethods => SentTo("PUT", ItemPath)
    /\ name \in DeleteMethods => SentTo("DELETE", ItemPath)

\* update_user_webhook for b2 sent PUT <base>/user-webhooks/b2, the base URL
\* having been given with a trailing slash.
C23_Witness ==
  /\ pc = "done"
  /\ lastOp.name = "update_user_webhook"
  /\ lastOp.args["webhook_id"] = <<"b2">>
  /\ Len(sent) = 1
  /\ sent[1].method = "PUT"
  /\ sent[1].url = <<"http://localhost:9000/v1", "/user-webhooks/", "b2">>

(***************************************************************************)
(* C24: pagination of list_agents                                          *)
(***************************************************************************)
\* The query of request i carries page and limit: the caller's value where one
\* was passed, else page 1 and limit 20.
PageAndLimitSent(i) ==
  LET params == sent[i].payload.params.v IN
  /\ DOMAIN sent[i].payload = {"params"}
  /\ {"page", "limit"} \subseteq DOMAIN params
  /\ params["page"] = IF "page" \in lastOp.args.supplied
                      THEN lastOp.args["page"] ELSE PyInt(1)
  /\ params["limit"] = IF "limit" \in lastOp.args.supplied
                       THEN lastOp.args["limit"] ELSE PyInt(20)

Pending == pc \in {"waiting", "answered"}

\* C25: every resource method call on an open client eventually terminates,
\* by returning or by raising, the transport eventually delivering a
\* response, failing or hitting the request timeout; once the transport has
\* answered, the next step of the call is its return or raise, with no
\* further request.
C25_CallsTerminate ==
  /\ Pending ~> (pc = "done" /\ outcome.type \in {"return", "raise"})
  /\ [][pc = "answered" => (pc' = "done" /\ sent' = sent /\ Len(sent) = 1)]_vars

\* list_calls ended by raising after the request timed out.
C25_Witness ==
  /\ pc = "done"
  /\ lastOp.name = "list_calls"
  /\ resp.kind = "error" /\ resp.exc = "ReadTimeout"
  /\ Len(sent) = 1
  /\ outcome.type = "raise"

(***************************************************************************)
(* C26: for 401, 404 and 429 the outcome depends on the status alone       *)
(***************************************************************************)
\* The error _request raises for each of the three statuses.
StatusError ==
  (401 :> Raise("AuthenticationError", PyStr(<<"Invalid API key">>)))
  @@ (404 :> Raise("NotFoundError", PyStr(<<"Resource not found">>)))
  @@ (429 :> Raise("RateLimitError", PyStr(<<"Rate limit exceeded">>)))

\* The last two calls were _request calls answered with the same status, one
\* of 401, 404 and 429.
SameStatusTwice ==
  /\ pc = "done"
  /\ lastOp.name = "_request"
  /\ prev.op.name = "_request"
  /\ resp.kind = "response"
  /\ prev.resp.kind = "response"
  /\ resp.status = prev.resp.status
  /\ resp.status \in DOMAIN StatusError

\* C26: for a response with status 401, 404 or 429 the outcome of _request
\* is a function of the status code alone: two responses with the same such
\* status give the same raised error, of the status's kind and with its fixed
\* message, whatever their bodies (a success=true envelope, an envelope with
\* its own error message, or anything else).
C26_OutcomeByStatusAlone ==
  SameStatusTwice =>
    /\ outcome = prev.outcome
    /\ outcome = StatusError[resp.status]

\* Two 401 answers, the first a success=true envelope with data, the second
\* an envelope with its own error message: both raised Invalid API key.
C26_Witness ==
  /\ SameStatusTwice
  /\ resp.status = 401
  /\ prev.resp.body.json = PyDict([success |-> PyBool(TRUE), data |-> AgentPayload])
  /\ resp.body.json = PyDict([success |-> PyBool(FALSE), error |-> ErrorObject])
  /\ outcome = Raise("AuthenticationError", PyStr(<<"Invalid API key">>))
  /\ prev.outcome = outcome

(***************************************************************************)
(* C27: what escapes from _request                                         *)
(***************************************************************************)
\* C27 (as stated): for every HTTP response, whatever its status and body,
\* CallWhiz._request either returns a value or raises an instance of
\* CallWhizError; no other exception type escapes from it.
C27_OnlyCallWhizErrorEscapes ==
  (pc = "done" /\ lastOp.name = "_request" /\ Answered) =>
    \/ outcome.type = "return"
    \/ outcome.type = "raise" /\ IsInstance(outcome.exc, "CallWhizError")

(***************************************************************************)
(* C28: the success field gates what a 2xx response returns                *)
(***************************************************************************)
\* The 2xx body is an envelope whose success field is missing, null or false.
SuccessNotTruthy ==
  /\ Answered2xx
  /\ resp.body.json.t = "dict"
  /\ ~Truthy(Get(resp.body.json, "success", None))

\* The envelope has no error object: no error field, or one that is no object.
NoErrorObject ==
  "error" \in DOMAIN resp.body.json.v => resp.body.json.v["error"].t # "dict"

\* C28 (as stated): a 2xx response is returned as data only when the
\* envelope's success field is present and truthy; a 2xx envelope whose
\* success field is missing, null or false is never returned but raises the
\* generic CallWhizError, with the message 'Unknown error' when the envelope
\* has no error object.
C28_SuccessGatesReturn ==
  /\ (Answered2xx /\ reqOutcome.type = "return") =>
        /\ resp.body.json.t = "dict"
        /\ Truthy(Get(resp.body.json, "success", None))
  /\ SuccessNotTruthy =>
        /\ reqOutcome.type = "raise"
        /\ reqOutcome.exc = "CallWhizError"
        /\ NoErrorObject => reqOutcome.msg = PyStr(<<"Unknown error">>)

(***************************************************************************)
(* C29: the update methods validate nothing locally                        *)
(***************************************************************************)
\* The optional parameters the caller supplied to the update that finished.
SuppliedKeys == { p \in UpdateParams(lastOp.name) : lastOp.args[p] # None }

\* The update sent exactly one request, a PUT whose body holds exactly the
\* supplied keys.
OnePutOfSuppliedKeys ==
  /\ Len(sent) = 1
  /\ sent[1].method = "PUT"
  /\ DOMAIN sent[1].payload = {"json"}
  /\ DOMAIN sent[1].payload.json.v = SuppliedKeys

\* C29 (as stated): update_agent, update_webhook and update_user_webhook
\* perform no local validation: for every combination of optional parameters
\* (none at all, prompt and stages together) they raise no local error and
\* issue exactly one PUT request whose body holds exactly the supplied keys.
C29_UpdatesSendOnePut ==
  (pc = "done" /\ lastOp.name \in UpdateMethods) =>
    /\ reqOutcome # NoOutcome
    /\ OnePutOfSuppliedKeys

\* C29 (amended): update_agent, update_webhook and update_user_webhook
\* perform no local validation: for every combination of optional parameters
\* (none at all, prompt and stages together) they reach _request without
\* raising, and on an open client issue exactly one PUT request whose
\* body holds exactly the supplied keys; on a closed client the session
\* refuses the request and nothing is sent.
C29_UpdatesSendOnePutWhenOpen ==
  (pc = "done" /\ lastOp.name \in UpdateMethods) =>
    /\ reqOutcome # NoOutcome
    /\ outcome.type = "raise" => outcome = reqOutcome \/ reqOutcome.type = "return"
    /\ session = "open" => OnePutOfSuppliedKeys
    /\ session # "open" => sent = <<>> /\ outcome.exc = "RuntimeError"

\* update_agent with prompt and stages together sent one PUT with both keys.
C29_Witness ==
  /\ pc = "done"
  /\ lastOp.name = "update_agent"
  /\ lastOp.args["prompt"] = PyStr(<<"X">>)
  /\ lastOp.args["stages"] = PyList(<<Stage1>>)
  /\ Len(sent) = 1
  /\ sent[1].method = "PUT"
  /\ DOMAIN sent[1].payload.json.v = {"prompt", "stages"}

(***************************************************************************)
(* C30: trailing slashes of the base URL                                   *)
(***************************************************************************)
\* k slashes.
Slashes(k) == [i \in 1..k |-> "/"]

\* u does not end with a slash.
NoTrailingSlash(u) == u = <<>> \/ u[Len(u)] # "/"

\* C30: base-URL normalisation is idempotent and slash-insensitive: a client
\* constructed with a base URL followed by any number of trailing slashes
\* stores the base URL without them, the same as (and with the same headers
\* and key as) a client constructed with the slash-free base URL, and every
\* request URL is that stored base URL followed by the endpoint, with only
\* the endpoint's own leading slash between them.
C30_TrailingSlashesIgnored ==
  /\ (pc = "done" /\ lastOp.name = "__init__" /\ outcome.type = "return") =>
        LET given == lastOp.args.base_url IN
        /\ NoTrailingSlash(client.base_url)
        /\ \E k \in 0..Len(given) : given = client.base_url \o Slashes(k)
        /\ client = __init__(lastOp.args.api_key, client.base_url).self
  /\ client # NoClient => client.base_url = DefaultBaseUrl
  /\ (pc = "done" /\ lastOp.name = "_request") =>
        \A i \in 1..Len(sent) :
          /\ sent[i].url = DefaultBaseUrl \o lastOp.args.endpoint
          /\ sent[i].url[Len(DefaultBaseUrl)] # "/"

\* The client was constructed with two trailing slashes and stores none.
C30_Witness ==
  /\ pc = "done"
  /\ lastOp.name = "__init__"
  /\ lastOp.args.base_url = DefaultBaseUrl \o <<"/", "/">>
  /\ outcome.type = "return"
  /\ client.base_url = DefaultBaseUrl

====
